---- MODULE Spec2Model ----
(***************************************************************************)
(* Image-lifecycle model of okobit: the Dexie store (chats, messages,      *)
(* images), the cleanup service, the gallery handlers and the import       *)
(* merge.  One step of the model is one IndexedDB transaction (an explicit *)
(* db.transaction block, or a single awaited table call outside one);      *)
(* handlers that await several transactions are split at the awaits.       *)
(***************************************************************************)
EXTENDS Integers, Sequences, FiniteSets, TLC

VARIABLES
    now,          \* Date.now()
    dbVersion,    \* schema version of the persisted database (db.ts)
    chats,        \* db.chats    : id -> row
    messages,     \* db.messages : id -> row
    images,       \* db.images   : id -> row
    nextChatId, nextMsgId, nextImgId,   \* uuidv4(): ids never handed out before
    sweepPending, \* the mount effect's cleanupOrphanedImages() has not committed yet
    send,         \* handleSendMessage / processGeneration in flight
    toggle,       \* handleToggleGallery in flight
    lightbox,     \* Lightbox.handleToggleBookmark in flight
    imp,          \* importData in flight
    fork,         \* handleFork.performFork in flight
    edit,         \* handleEditMessage.performRegenerate in flight
    archive,      \* the backup file the user holds
    config,       \* the application configuration (App state, localStorage)
    fileConfig,   \* the config entry of the backup file the user holds
    exported,     \* the manifest the last exportData wrote
    isGeneratingRef,      \* App: isGeneratingRef.current
    generatingChatIdRef,  \* App: generatingChatIdRef.current (0: null)
    abortRef,             \* App: abortRef.current, by the run that made the controller (0: null)
    isSubmittingRef,      \* App: isSubmittingRef.current
    modalConfig,          \* App: modalConfig (NoModal: null)
    runs,                 \* the calls that lead to processGeneration: id -> its position
    prompts,              \* db.prompts : id -> row
    nextPromptId,         \* the ++id key of db.prompts
    promptOp,             \* a prompt handler in flight
    last          \* the operation that committed last, with its arguments

vars == <<now, dbVersion, chats, messages, images, nextChatId, nextMsgId,
          nextImgId, sweepPending, send, toggle, lightbox, imp, fork, edit, archive,
          config, fileConfig, exported, isGeneratingRef, generatingChatIdRef, abortRef,
          isSubmittingRef, modalConfig, runs, prompts, nextPromptId, promptOp, last>>

store == <<chats, messages, images>>
ids == <<nextChatId, nextMsgId, nextImgId>>
refs == <<isGeneratingRef, generatingChatIdRef, abortRef, isSubmittingRef, modalConfig, runs>>
promptStore == <<prompts, nextPromptId, promptOp>>

----------------------------------------------------------------------------
(* Bounds *)
MaxTime == 2
MaxChats == 2
MaxMessages == 2
MaxImages == 2
MaxFiles == 1
MaxGenImages == 1
MaxArchImages == 1
MaxSlack == 1
MaxInFlight == 1
MaxPick == 1

(* Program constants *)
GALLERY_CAP == 50
BATCH_SIZE == 5
UNDEFINED == 0      \* an absent galleryTimestamp (timestamps are >= 1)

----------------------------------------------------------------------------
(* Helpers on tables and arrays *)
Range(s) == {s[i] : i \in DOMAIN s}

Restrict(f, S) == [x \in S |-> f[x]]

Put(f, k, v) == [x \in DOMAIN f \cup {k} |-> IF x = k THEN v ELSE f[x]]

Merge(f, g) == [x \in DOMAIN f \cup DOMAIN g |-> IF x \in DOMAIN f THEN f[x] ELSE g[x]]

EmptyTable == [x \in {} |-> 0]

\* Array.prototype.filter: keep the elements satisfying Keep, in order
RECURSIVE FilterSeq(_, _)
FilterSeq(s, Keep) ==
    IF s = <<>> THEN <<>>
    ELSE IF Head(s) \in Keep THEN <<Head(s)>> \o FilterSeq(Tail(s), Keep)
    ELSE FilterSeq(Tail(s), Keep)

\* some enumeration of a finite set as an array (Array.from(set))
RECURSIVE SetToSeq(_)
SetToSeq(S) ==
    IF S = {} THEN <<>>
    ELSE LET x == CHOOSE y \in S : \A z \in S : y <= z
         IN <<x>> \o SetToSeq(S \ {x})

----------------------------------------------------------------------------
(* Rows *)
ChatRow(t) == [updatedAt |-> t]

MessageRow(chatId, role, imageIds, t, err) ==
    [chatId |-> chatId, role |-> role, imageIds |-> imageIds,
     timestamp |-> t, error |-> err]

\* a freshly stored image: isGalleryVisible false, no galleryTimestamp
NewImage(t) ==
    [createdAt |-> t, isGalleryVisible |-> FALSE, galleryTimestamp |-> UNDEFINED]

\* the record kept in last: the operation, its argument ids, and what it read
Op3(name, args, seen) == [op |-> name, ids |-> args, seen |-> seen]

Op(name, args) == Op3(name, args, {})

ListedImages(msgs, messageIds) ==
    UNION {Range(msgs[m].imageIds) : m \in messageIds \cap DOMAIN msgs}

ListingMessages(msgs, imageIds) ==
    {m \in DOMAIN msgs : Range(msgs[m].imageIds) \cap imageIds # {}}

----------------------------------------------------------------------------
(* services/cleanupService.ts *)

isImageReferenced(msgs, imageId) ==
    Cardinality({m \in DOMAIN msgs : imageId \in Range(msgs[m].imageIds)}) > 0

\* a sweep that, once asked, deletes every orphan it finds, listed or not
deleteOrphansAnywhere(imgs, msgs, imageIds) ==
    IF imageIds = {} THEN imgs
    ELSE LET candidates == {i \in DOMAIN imgs : ~imgs[i].isGalleryVisible}
             toDelete == {i \in candidates : ~isImageReferenced(msgs, i)}
         IN  Restrict(imgs, DOMAIN imgs \ toDelete)

\* a sweep that skips the reference check
deleteImagesUnchecked(imgs, msgs, imageIds) ==
    IF imageIds = {} THEN imgs
    ELSE LET found == imageIds \cap DOMAIN imgs
             candidates == {i \in found : ~imgs[i].isGalleryVisible}
         IN  Restrict(imgs, DOMAIN imgs \ candidates)

\* a sweep that skips the gallery filter
deleteImagesIfUnreferenced(imgs, msgs, imageIds) ==
    IF imageIds = {} THEN imgs
    ELSE LET found == imageIds \cap DOMAIN imgs
             toDelete == {i \in found : ~isImageReferenced(msgs, i)}
         IN  Restrict(imgs, DOMAIN imgs \ toDelete)

\* the images table after deleteImagesIfOrphaned(imageIds)
deleteImagesIfOrphaned(imgs, msgs, imageIds) ==
    IF imageIds = {} THEN imgs
    ELSE LET found == imageIds \cap DOMAIN imgs
             candidates == {i \in found : ~imgs[i].isGalleryVisible}
             toDelete == {i \in candidates : ~isImageReferenced(msgs, i)}
         IN  Restrict(imgs, DOMAIN imgs \ toDelete)

\* a forced deletion that rewrites only the first message it finds
forceDeleteImagesFirstOnly(imgs, msgs, imageIds) ==
    IF imageIds = {} THEN [images |-> imgs, messages |-> msgs]
    ELSE LET hit == {m \in DOMAIN msgs : Range(msgs[m].imageIds) \cap imageIds # {}}
             first == {m \in hit : \A n \in hit : m <= n}
             newIds(m) == FilterSeq(msgs[m].imageIds, Range(msgs[m].imageIds) \ imageIds)
         IN  [images   |-> Restrict(imgs, DOMAIN imgs \ imageIds),
              messages |-> [m \in DOMAIN msgs |->
                               IF m \in first
                               THEN [msgs[m] EXCEPT !.imageIds = newIds(m)]
                               ELSE msgs[m]]]

\* a forced deletion that rebuilds each list from the set of ids that remain
forceDeleteImagesResorted(imgs, msgs, imageIds) ==
    IF imageIds = {} THEN [images |-> imgs, messages |-> msgs]
    ELSE LET hit == {m \in DOMAIN msgs : Range(msgs[m].imageIds) \cap imageIds # {}}
             newIds(m) == SetToSeq(Range(msgs[m].imageIds) \ imageIds)
         IN  [images   |-> Restrict(imgs, DOMAIN imgs \ imageIds),
              messages |-> [m \in DOMAIN msgs |->
                               IF m \in hit
                               THEN [msgs[m] EXCEPT !.imageIds = newIds(m)]
                               ELSE msgs[m]]]

\* the images and messages tables after forceDeleteImages(imageIds)
forceDeleteImages(imgs, msgs, imageIds) ==
    IF imageIds = {} THEN [images |-> imgs, messages |-> msgs]
    ELSE LET hit == {m \in DOMAIN msgs : Range(msgs[m].imageIds) \cap imageIds # {}}
             newIds(m) == FilterSeq(msgs[m].imageIds, Range(msgs[m].imageIds) \ imageIds)
         IN  [images   |-> Restrict(imgs, DOMAIN imgs \ imageIds),
              messages |-> [m \in DOMAIN msgs |->
                               IF m \in hit /\ Len(newIds(m)) # Len(msgs[m].imageIds)
                               THEN [msgs[m] EXCEPT !.imageIds = newIds(m)]
                               ELSE msgs[m]]]

\* the images and messages tables after deleteMessagesWithCleanup(messageIds)
deleteMessagesWithCleanup(imgs, msgs, messageIds) ==
    IF messageIds = {} THEN [images |-> imgs, messages |-> msgs]
    ELSE LET found == messageIds \cap DOMAIN msgs
             candidateImageIds == UNION {Range(msgs[m].imageIds) : m \in found}
             msgs2 == Restrict(msgs, DOMAIN msgs \ messageIds)
         IN  [images   |-> IF candidateImageIds # {}
                           THEN deleteImagesIfOrphaned(imgs, msgs2, candidateImageIds)
                           ELSE imgs,
              messages |-> msgs2]

\* a chat deletion that leaves the messages of the chat behind
deleteChatAlone(chs, imgs, msgs, chatId) ==
    [chats |-> Restrict(chs, DOMAIN chs \ {chatId}), images |-> imgs, messages |-> msgs]

\* the three tables after deleteChatWithCleanup(chatId)
deleteChatWithCleanup(chs, imgs, msgs, chatId) ==
    LET messageIds == {m \in DOMAIN msgs : msgs[m].chatId = chatId}
        candidateImageIds == UNION {Range(msgs[m].imageIds) : m \in messageIds}
        msgs2 == Restrict(msgs, DOMAIN msgs \ messageIds)
    IN  [chats    |-> Restrict(chs, DOMAIN chs \ {chatId}),
         images   |-> IF candidateImageIds # {}
                      THEN deleteImagesIfOrphaned(imgs, msgs2, candidateImageIds)
                      ELSE imgs,
         messages |-> msgs2]

\* a sweep that finds its candidates and deletes none of them
cleanupDeletingNothing(imgs, msgs) ==
    [images |-> imgs, count |-> 0]

\* a sweep that deletes every image outside the gallery
cleanupAllCandidates(imgs, msgs) ==
    LET candidates == {i \in DOMAIN imgs : ~imgs[i].isGalleryVisible}
    IN  [images |-> Restrict(imgs, DOMAIN imgs \ candidates),
         count  |-> Cardinality(candidates)]

\* the images table after cleanupOrphanedImages(), and the count it returns
cleanupOrphanedImages(imgs, msgs) ==
    LET candidates == {i \in DOMAIN imgs : ~imgs[i].isGalleryVisible}
        toDelete == {i \in candidates : ~isImageReferenced(msgs, i)}
    IN  [images |-> Restrict(imgs, DOMAIN imgs \ toDelete),
         count  |-> Cardinality(toDelete)]

(* services/dataService.ts *)

\* a deleteMessagesSafe that counts the messages being deleted as references
deleteMessagesSafeAnyReference(imgs, msgs, messageIds) ==
    LET validMessages == messageIds \cap DOMAIN msgs
        allImageIds == UNION {Range(msgs[m].imageIds) : m \in validMessages}
        imagesToDelete == {i \in allImageIds \cap DOMAIN imgs :
                              /\ ~imgs[i].isGalleryVisible
                              /\ ~isImageReferenced(msgs, i)}
    IN  [images   |-> Restrict(imgs, DOMAIN imgs \ imagesToDelete),
         messages |-> Restrict(msgs, DOMAIN msgs \ messageIds)]

\* the images and messages tables after deleteMessagesSafe(messageIds)
deleteMessagesSafe(imgs, msgs, messageIds) ==
    LET validMessages == messageIds \cap DOMAIN msgs
        allImageIds == UNION {Range(msgs[m].imageIds) : m \in validMessages}
        msgsUsingImage(i) == {m \in DOMAIN msgs : i \in Range(msgs[m].imageIds)}
        isReferencedElsewhere(i) == \E m \in msgsUsingImage(i) : m \notin messageIds
        imagesToDelete == {i \in allImageIds \cap DOMAIN imgs :
                              /\ ~imgs[i].isGalleryVisible
                              /\ ~isReferencedElsewhere(i)}
    IN  [images   |-> Restrict(imgs, DOMAIN imgs \ imagesToDelete),
         messages |-> Restrict(msgs, DOMAIN msgs \ messageIds)]

----------------------------------------------------------------------------
(* Gallery: App.tsx handlers and components/Lightbox *)

\* db.images.filter(i => i.isGalleryVisible).count()
GalleryCount(imgs) == Cardinality({i \in DOMAIN imgs : imgs[i].isGalleryVisible})

\* db.images.where('galleryTimestamp').above(0).count(): the sparse index
SparseCount(imgs) == Cardinality({i \in DOMAIN imgs : imgs[i].galleryTimestamp > 0})

\* db.images.update(id, {isGalleryVisible: true, galleryTimestamp: t}); no row, no change
Bookmark(imgs, id, t) ==
    IF id \in DOMAIN imgs
    THEN [imgs EXCEPT ![id].isGalleryVisible = TRUE, ![id].galleryTimestamp = t]
    ELSE imgs

\* an unbookmark that leaves the galleryTimestamp behind
UnbookmarkStale(imgs, id) ==
    IF id \in DOMAIN imgs
    THEN [imgs EXCEPT ![id].isGalleryVisible = FALSE]
    ELSE imgs

\* db.images.update(id, {isGalleryVisible: false, galleryTimestamp: undefined})
Unbookmark(imgs, id) ==
    IF id \in DOMAIN imgs
    THEN [imgs EXCEPT ![id].isGalleryVisible = FALSE, ![id].galleryTimestamp = UNDEFINED]
    ELSE imgs

RECURSIVE BookmarkAll(_, _)
BookmarkAll(imgs, rows) ==
    IF rows = <<>> THEN imgs
    ELSE BookmarkAll(Bookmark(imgs, Head(rows).id, Head(rows).createdAt), Tail(rows))

RECURSIVE UnbookmarkAll(_, _)
UnbookmarkAll(imgs, idSeq) ==
    IF idSeq = <<>> THEN imgs
    ELSE UnbookmarkAll(Unbookmark(imgs, Head(idSeq)), Tail(idSeq))

\* the images table after handleBulkUnbookmark(imageIds)
handleBulkUnbookmark(imgs, imageIds) == UnbookmarkAll(imgs, SetToSeq(imageIds))

\* db.images.bulkGet(imageIds) without the misses: the rows as they were read
RECURSIVE BulkGetValid(_, _)
BulkGetValid(imgs, idSeq) ==
    IF idSeq = <<>> THEN <<>>
    ELSE (IF Head(idSeq) \in DOMAIN imgs
          THEN <<[id |-> Head(idSeq),
                  isGalleryVisible |-> imgs[Head(idSeq)].isGalleryVisible,
                  createdAt |-> imgs[Head(idSeq)].createdAt]>>
          ELSE <<>>) \o BulkGetValid(imgs, Tail(idSeq))

RECURSIVE Unsaved(_)
Unsaved(rows) ==
    IF rows = <<>> THEN <<>>
    ELSE (IF ~Head(rows).isGalleryVisible THEN <<Head(rows)>> ELSE <<>>) \o Unsaved(Tail(rows))

RowIds(rows) == [k \in DOMAIN rows |-> rows[k].id]

\* handleToggleGallery after its two reads: the capacity check and the write
ToggleRejects(currentCount, validImages) ==
    Len(Unsaved(validImages)) > GALLERY_CAP - currentCount

\* a bulk bookmark that fills the free slots and drops the rest
toggleGalleryWritePartial(imgs, currentCount, validImages) ==
    LET toSave == Unsaved(validImages)
        availableSlots == GALLERY_CAP - currentCount
    IN
    IF Len(toSave) > 0
    THEN IF availableSlots <= 0 THEN imgs
         ELSE BookmarkAll(imgs, SubSeq(toSave, 1, IF Len(toSave) < availableSlots
                                                  THEN Len(toSave) ELSE availableSlots))
    ELSE UnbookmarkAll(imgs, RowIds(validImages))

\* a toggle that flips every image of a mixed set: the bookmarked ones leave the
\* gallery while the others enter it
toggleGalleryWriteFlipEach(imgs, currentCount, validImages) ==
    LET toSave == Unsaved(validImages) IN
    IF Len(toSave) > 0
    THEN IF ToggleRejects(currentCount, validImages) THEN imgs
         ELSE BookmarkAll(UnbookmarkAll(imgs, RowIds(validImages)), toSave)
    ELSE UnbookmarkAll(imgs, RowIds(validImages))

toggleGalleryWrite(imgs, currentCount, validImages) ==
    LET toSave == Unsaved(validImages) IN
    IF Len(toSave) > 0
    THEN IF ToggleRejects(currentCount, validImages) THEN imgs
         ELSE BookmarkAll(imgs, toSave)
    ELSE UnbookmarkAll(imgs, RowIds(validImages))

\* a capacity check that is off by one
LightboxRejectsAbove(count) == count > GALLERY_CAP

\* Lightbox.handleToggleBookmark, bookmark branch after the count was read
LightboxRejects(count) == count >= GALLERY_CAP

lightboxBookmarkWrite(imgs, imageId, count, createdAt) ==
    IF LightboxRejects(count) THEN imgs ELSE Bookmark(imgs, imageId, createdAt)

----------------------------------------------------------------------------
(* db.ts: the version 3 upgrade *)
\* an upgrade that stamps every image, bookmarked or not
upgradeV3Everything(imgs) ==
    [i \in DOMAIN imgs |-> [imgs[i] EXCEPT !.galleryTimestamp = imgs[i].createdAt]]

upgradeV3(imgs) ==
    [i \in DOMAIN imgs |->
        IF imgs[i].isGalleryVisible /\ imgs[i].galleryTimestamp = UNDEFINED
        THEN [imgs[i] EXCEPT !.galleryTimestamp = imgs[i].createdAt]
        ELSE imgs[i]]

----------------------------------------------------------------------------
(* services/dataService: the merge *)

\* a merge that stores every archive row under a key of its own, as an
\* auto-increment table does
NewRowsAppended(table, rows) ==
    LET all == DOMAIN table \cup DOMAIN rows
        top == IF all = {} THEN 0 ELSE CHOOSE k \in all : \A j \in all : j <= k
    IN  [k \in {top + r : r \in DOMAIN rows} |-> rows[k - top]]

\* rows of the archive whose id the table does not have yet
NewRows(table, rows) == Restrict(rows, DOMAIN rows \ DOMAIN table)

\* a merge that writes every archive row over the stored one (bulkPut)
importMetadataPut(chs, msgs, data) ==
    [chats    |-> Merge(data.chats, chs),
     messages |-> Merge(data.messages, msgs)]

\* Transaction 1 of importData: chats and messages
importMetadata(chs, msgs, data) ==
    [chats    |-> Merge(chs, NewRows(chs, data.chats)),
     messages |-> Merge(msgs, NewRows(msgs, data.messages))]

\* the row importData builds from an archive entry
ImportedImage(imgMeta) ==
    [createdAt |-> imgMeta.createdAt,
     isGalleryVisible |-> imgMeta.isGalleryVisible,
     galleryTimestamp |-> IF imgMeta.isGalleryVisible
                          THEN (IF imgMeta.galleryTimestamp # UNDEFINED
                                THEN imgMeta.galleryTimestamp ELSE imgMeta.createdAt)
                          ELSE UNDEFINED]

\* the row importLegacyJson builds from an embedded image
LegacyImage(img) ==
    [createdAt |-> img.createdAt,
     isGalleryVisible |-> img.isGalleryVisible,
     galleryTimestamp |-> IF img.isGalleryVisible THEN img.createdAt ELSE UNDEFINED]

\* data.images.slice(i, i + BATCH_SIZE), as ids
BatchIds(data, i) ==
    {data.imageOrder[k] : k \in {j \in DOMAIN data.imageOrder : j > i /\ j <= i + BATCH_SIZE}}

\* db.images.bulkAdd(itemsToAdd) outside a transaction: rows whose key exists fail, the rest are added
importBatchAdd(imgs, data, candidates) ==
    Merge(imgs, [i \in candidates \ DOMAIN imgs |-> ImportedImage(data.images[i])])

\* the batches from offset i on, run to the end
RECURSIVE importBatches(_, _, _)
importBatches(imgs, data, i) ==
    IF i >= Len(data.imageOrder) THEN imgs
    ELSE importBatches(importBatchAdd(imgs, data, BatchIds(data, i) \ DOMAIN imgs),
                       data, i + BATCH_SIZE)

\* the three tables after importData ran alone
importData(chs, msgs, imgs, data) ==
    LET r == importMetadata(chs, msgs, data)
    IN  [chats |-> r.chats, messages |-> r.messages,
         images |-> importBatches(imgs, data, 0)]

\* an export whose image entries carry no gallery fields
exportDataNoGallery(chs, msgs, imgs) ==
    [chats |-> chs, messages |-> msgs,
     images |-> [i \in DOMAIN imgs |->
                    [createdAt |-> imgs[i].createdAt,
                     isGalleryVisible |-> FALSE,
                     galleryTimestamp |-> UNDEFINED]],
     imageOrder |-> SetToSeq(DOMAIN imgs)]

\* the manifest exportData writes and the image files it packs: the chats and
\* messages rows as stored, one metadata entry per image in primary-key order
exportData(chs, msgs, imgs) ==
    [chats |-> chs, messages |-> msgs,
     images |-> [i \in DOMAIN imgs |->
                    [createdAt |-> imgs[i].createdAt,
                     isGalleryVisible |-> imgs[i].isGalleryVisible,
                     galleryTimestamp |-> imgs[i].galleryTimestamp]],
     imageOrder |-> SetToSeq(DOMAIN imgs)]

\* the single transaction of importLegacyJson
importLegacyJson(chs, msgs, imgs, data) ==
    [chats    |-> Merge(chs, NewRows(chs, data.chats)),
     messages |-> Merge(msgs, NewRows(msgs, data.messages)),
     images   |-> Merge(imgs, [i \in DOMAIN data.images \ DOMAIN imgs |->
                                  LegacyImage(data.images[i])])]

----------------------------------------------------------------------------
(* In-flight handlers *)
SendIdle == [pc |-> "idle", chatId |-> 0, files |-> <<>>, imageIds |-> <<>>, genLeft |-> 0]
ToggleIdle == [pc |-> "idle", ids |-> <<>>, currentCount |-> 0, valid |-> <<>>]
LightboxIdle == [pc |-> "idle", id |-> 0, count |-> 0, createdAt |-> 0]
ImportIdle == [pc |-> "idle", i |-> 0, candidates |-> {}]
ForkIdle == [pc |-> "idle", msgId |-> 0, chatId |-> 0, rows |-> <<>>, generate |-> FALSE]
NoModal == [type |-> "none", run |-> 0]
PromptIdle == [pc |-> "idle", text |-> "", count |-> 0, ids |-> {}]
EditIdle == [pc |-> "idle", msgId |-> 0, chatId |-> 0, targetImageIds |-> <<>>,
             kept |-> {}, files |-> <<>>, later |-> {}, finalImageIds |-> <<>>]

DbReady == dbVersion = 3

\* handlers suspended at an await
InFlight ==
    Cardinality({h \in {<<1, send.pc>>, <<2, toggle.pc>>, <<3, lightbox.pc>>,
                        <<4, imp.pc>>, <<5, fork.pc>>, <<6, edit.pc>>} : h[2] # "idle"})

\* a handler that has to await may start
MayStart == DbReady /\ InFlight < MaxInFlight

\* the images the user acts on: every image but the untouched part of a full gallery
Pickable(imgs) == {i \in DOMAIN imgs : i <= MaxImages + MaxArchImages + MaxPick}

\* attached files: TRUE when getEffectiveMimeType finds a usable type
FileLists == UNION {[1..n -> BOOLEAN] : n \in 0..MaxFiles}

----------------------------------------------------------------------------
(* Time and schema *)
Tick ==
    /\ now < MaxTime
    /\ now' = now + 1
    /\ UNCHANGED <<dbVersion, store, ids, sweepPending, send, toggle, lightbox, imp, fork, edit,
                   archive, config, fileConfig, exported, last,
                   refs, promptStore>>

\* Dexie opens the database: version(3).upgrade runs before any other access
Upgrade ==
    /\ dbVersion = 2
    /\ dbVersion' = 3
    /\ images' = upgradeV3(images)
    /\ last' = Op("upgrade", {})
    /\ UNCHANGED <<now, chats, messages, ids, sweepPending, send, toggle, lightbox, imp, fork, edit,
                   archive, config, fileConfig, exported,
                   refs, promptStore>>

\* the mount effect: cleanupOrphanedImages() in its one transaction
Sweep ==
    /\ DbReady /\ sweepPending
    /\ sweepPending' = FALSE
    /\ images' = cleanupOrphanedImages(images, messages).images
    /\ last' = Op("cleanupOrphanedImages", DOMAIN images \ DOMAIN images')
    /\ UNCHANGED <<now, dbVersion, chats, messages, ids, send, toggle, lightbox, imp, fork, edit,
                   archive, config, fileConfig, exported,
                   refs, promptStore>>

----------------------------------------------------------------------------
(* Chats *)
createNewChat ==
    /\ DbReady
    /\ nextChatId <= MaxChats
    /\ \A c \in DOMAIN chats : \E m \in DOMAIN messages : messages[m].chatId = c
    /\ chats' = Put(chats, nextChatId, ChatRow(now))
    /\ nextChatId' = nextChatId + 1
    /\ last' = Op("createNewChat", {nextChatId})
    /\ UNCHANGED <<now, dbVersion, messages, images, nextMsgId, nextImgId, sweepPending,
                   send, toggle, lightbox, imp, fork, edit, archive, config, fileConfig, exported,
                   refs, promptStore>>

handleDeleteChat(id) ==
    /\ DbReady
    /\ LET r == deleteChatWithCleanup(chats, images, messages, id) IN
         /\ chats' = r.chats
         /\ messages' = r.messages
         /\ images' = r.images
    /\ last' = Op3("deleteChatWithCleanup", {id},
                   ListedImages(messages, {m \in DOMAIN messages : messages[m].chatId = id}))
    /\ UNCHANGED <<now, dbVersion, ids, sweepPending, send, toggle, lightbox, imp, fork, edit,
                   archive, config, fileConfig, exported,
                   refs, promptStore>>

----------------------------------------------------------------------------
(* handleSendMessage and processGeneration *)
handleSendMessage(chatId, files) ==
    /\ MayStart
    /\ config.apiKey # ""
    /\ send.pc = "idle"
    /\ nextMsgId <= MaxMessages
    /\ nextImgId + Len(files) - 1 <= MaxImages
    /\ send' = [SendIdle EXCEPT !.pc = "files", !.chatId = chatId, !.files = files]
    /\ UNCHANGED <<now, dbVersion, store, ids, sweepPending, toggle, lightbox, imp, fork, edit,
                   archive, config, fileConfig, exported, last,
                   refs, promptStore>>

\* one turn of the file loop: reject the file, or db.images.add
SendFile ==
    /\ send.pc = "files" /\ send.files # <<>>
    /\ IF ~Head(send.files)
       THEN /\ send' = SendIdle
            /\ last' = Op("unsupportedFile", {})
            /\ UNCHANGED <<images, nextImgId>>
       ELSE /\ images' = Put(images, nextImgId, NewImage(now))
            /\ nextImgId' = nextImgId + 1
            /\ send' = [send EXCEPT !.files = Tail(@), !.imageIds = Append(@, nextImgId)]
            /\ last' = Op("images.add", {nextImgId})
    /\ UNCHANGED <<now, dbVersion, chats, messages, nextChatId, nextMsgId, sweepPending,
                   toggle, lightbox, imp, fork, edit, archive, config, fileConfig, exported,
                   refs, promptStore>>

\* db.messages.add of the user message, then processGeneration starts
SendMessage ==
    /\ send.pc = "files" /\ send.files = <<>>
    /\ messages' = Put(messages, nextMsgId,
                       MessageRow(send.chatId, "user", send.imageIds, now, FALSE))
    /\ nextMsgId' = nextMsgId + 1
    /\ send' = [send EXCEPT !.pc = "gen_call", !.imageIds = <<>>]
    /\ last' = Op("messages.add", {nextMsgId})
    /\ UNCHANGED <<now, dbVersion, chats, images, nextChatId, nextImgId, sweepPending,
                   toggle, lightbox, imp, fork, edit, archive, config, fileConfig, exported,
                   refs, promptStore>>

\* generateImageContentStream returns: aborted, failed, or n images
GenAbort ==
    /\ send.pc = "gen_call"
    /\ send' = SendIdle
    /\ UNCHANGED <<now, dbVersion, store, ids, sweepPending, toggle, lightbox, imp, fork, edit,
                   archive, config, fileConfig, exported, last,
                   refs, promptStore>>

GenResult(n) ==
    /\ send.pc = "gen_call"
    /\ nextMsgId <= MaxMessages
    /\ nextImgId + n - 1 <= MaxImages
    /\ send' = [send EXCEPT !.pc = "gen_images", !.genLeft = n]
    /\ UNCHANGED <<now, dbVersion, store, ids, sweepPending, toggle, lightbox, imp, fork, edit,
                   archive, config, fileConfig, exported, last,
                   refs, promptStore>>

GenFail ==
    /\ send.pc = "gen_call"
    /\ nextMsgId <= MaxMessages
    /\ messages' = Put(messages, nextMsgId, MessageRow(send.chatId, "model", <<>>, now, TRUE))
    /\ nextMsgId' = nextMsgId + 1
    /\ send' = SendIdle
    /\ last' = Op("messages.add", {nextMsgId})
    /\ UNCHANGED <<now, dbVersion, chats, images, nextChatId, nextImgId, sweepPending,
                   toggle, lightbox, imp, fork, edit, archive, config, fileConfig, exported,
                   refs, promptStore>>

GenImage ==
    /\ send.pc = "gen_images" /\ send.genLeft > 0
    /\ images' = Put(images, nextImgId, NewImage(now))
    /\ nextImgId' = nextImgId + 1
    /\ send' = [send EXCEPT !.genLeft = @ - 1, !.imageIds = Append(@, nextImgId)]
    /\ last' = Op("images.add", {nextImgId})
    /\ UNCHANGED <<now, dbVersion, chats, messages, nextChatId, nextMsgId, sweepPending,
                   toggle, lightbox, imp, fork, edit, archive, config, fileConfig, exported,
                   refs, promptStore>>

GenMessage ==
    /\ send.pc = "gen_images" /\ send.genLeft = 0
    /\ messages' = Put(messages, nextMsgId,
                       MessageRow(send.chatId, "model", send.imageIds, now, FALSE))
    /\ nextMsgId' = nextMsgId + 1
    /\ send' = [send EXCEPT !.pc = "gen_chat", !.imageIds = <<>>]
    /\ last' = Op("messages.add", {nextMsgId})
    /\ UNCHANGED <<now, dbVersion, chats, images, nextChatId, nextImgId, sweepPending,
                   toggle, lightbox, imp, fork, edit, archive, config, fileConfig, exported,
                   refs, promptStore>>

\* db.chats.update(chatId, {updatedAt}): no row, no change
GenChat ==
    /\ send.pc = "gen_chat"
    /\ chats' = IF send.chatId \in DOMAIN chats
                THEN [chats EXCEPT ![send.chatId].updatedAt = now] ELSE chats
    /\ send' = SendIdle
    /\ last' = Op("chats.update", {send.chatId})
    /\ UNCHANGED <<now, dbVersion, messages, images, ids, sweepPending, toggle, lightbox,
                   imp, fork, edit, archive, config, fileConfig, exported,
                   refs, promptStore>>

----------------------------------------------------------------------------
(* Deletion handlers *)

\* handleDeleteMessage, and the other callers of deleteMessagesWithCleanup
handleDeleteMessage(messageIds) ==
    /\ DbReady
    /\ LET r == deleteMessagesWithCleanup(images, messages, messageIds) IN
         /\ messages' = r.messages
         /\ images' = r.images
    /\ last' = Op3("deleteMessagesWithCleanup", messageIds, ListedImages(messages, messageIds))
    /\ UNCHANGED <<now, dbVersion, chats, ids, sweepPending, send, toggle, lightbox, imp,
                   fork, edit, archive, config, fileConfig, exported,
                   refs, promptStore>>

DeleteMessagesSafe(messageIds) ==
    /\ DbReady
    /\ LET r == deleteMessagesSafe(images, messages, messageIds) IN
         /\ messages' = r.messages
         /\ images' = r.images
    /\ last' = Op3("deleteMessagesSafe", messageIds, ListedImages(messages, messageIds))
    /\ UNCHANGED <<now, dbVersion, chats, ids, sweepPending, send, toggle, lightbox, imp,
                   fork, edit, archive, config, fileConfig, exported,
                   refs, promptStore>>

\* handleDeleteImage (one id) and handleBulkDeleteImages
handleDeleteImage(imageIds) ==
    /\ DbReady
    /\ LET r == forceDeleteImages(images, messages, imageIds) IN
         /\ messages' = r.messages
         /\ images' = r.images
    /\ last' = Op3("forceDeleteImages", imageIds, ListingMessages(messages, imageIds))
    /\ UNCHANGED <<now, dbVersion, chats, ids, sweepPending, send, toggle, lightbox, imp,
                   fork, edit, archive, config, fileConfig, exported,
                   refs, promptStore>>

----------------------------------------------------------------------------
(* Gallery handlers *)
BulkUnbookmark(imageIds) ==
    /\ DbReady
    /\ images' = handleBulkUnbookmark(images, imageIds)
    /\ last' = Op("handleBulkUnbookmark", imageIds)
    /\ UNCHANGED <<now, dbVersion, chats, messages, ids, sweepPending, send, toggle,
                   lightbox, imp, fork, edit, archive, config, fileConfig, exported,
                   refs, promptStore>>

\* handleToggleGallery(msg.imageIds): the count
ToggleCount(m) ==
    /\ MayStart
    /\ toggle.pc = "idle"
    /\ messages[m].role = "model"
    /\ Range(messages[m].imageIds) \cap DOMAIN images # {}
    /\ toggle' = [pc |-> "get", ids |-> messages[m].imageIds,
                  currentCount |-> GalleryCount(images), valid |-> <<>>]
    /\ UNCHANGED <<now, dbVersion, store, ids, sweepPending, send, lightbox, imp, fork, edit,
                   archive, config, fileConfig, exported, last,
                   refs, promptStore>>

\* db.images.bulkGet(imageIds)
ToggleGet ==
    /\ toggle.pc = "get"
    /\ toggle' = [toggle EXCEPT !.pc = "write", !.valid = BulkGetValid(images, toggle.ids)]
    /\ UNCHANGED <<now, dbVersion, store, ids, sweepPending, send, lightbox, imp, fork, edit,
                   archive, config, fileConfig, exported, last,
                   refs, promptStore>>

\* the capacity check and the write transaction
ToggleWrite ==
    /\ toggle.pc = "write"
    /\ images' = toggleGalleryWrite(images, toggle.currentCount, toggle.valid)
    /\ toggle' = ToggleIdle
    /\ last' = Op3(IF Len(Unsaved(toggle.valid)) = 0 THEN "toggle:unbookmark"
                   ELSE IF ToggleRejects(toggle.currentCount, toggle.valid)
                        THEN "toggle:galleryFull" ELSE "toggle:bookmark",
                   Range(RowIds(toggle.valid)), Range(RowIds(Unsaved(toggle.valid))))
    /\ UNCHANGED <<now, dbVersion, chats, messages, ids, sweepPending, send, lightbox,
                   imp, fork, edit, archive, config, fileConfig, exported,
                   refs, promptStore>>

\* Lightbox.handleToggleBookmark on a bookmarked image
LightboxUnbookmark(imageId) ==
    /\ DbReady
    /\ lightbox.pc = "idle"
    /\ images[imageId].isGalleryVisible
    /\ images' = Unbookmark(images, imageId)
    /\ last' = Op("lightbox:unbookmark", {imageId})
    /\ UNCHANGED <<now, dbVersion, chats, messages, ids, sweepPending, send, toggle,
                   lightbox, imp, fork, edit, archive, config, fileConfig, exported,
                   refs, promptStore>>

\* Lightbox.handleToggleBookmark on an image that is not bookmarked: the count
LightboxCount(imageId) ==
    /\ MayStart
    /\ lightbox.pc = "idle"
    /\ ~images[imageId].isGalleryVisible
    /\ lightbox' = [pc |-> "write", id |-> imageId, count |-> SparseCount(images),
                    createdAt |-> images[imageId].createdAt]
    /\ UNCHANGED <<now, dbVersion, store, ids, sweepPending, send, toggle, imp, fork, edit,
                   archive, config, fileConfig, exported, last,
                   refs, promptStore>>

LightboxWrite ==
    /\ lightbox.pc = "write"
    /\ images' = lightboxBookmarkWrite(images, lightbox.id, lightbox.count, lightbox.createdAt)
    /\ lightbox' = LightboxIdle
    /\ last' = Op(IF LightboxRejects(lightbox.count) THEN "lightbox:galleryFull"
                  ELSE "lightbox:bookmark", {lightbox.id})
    /\ UNCHANGED <<now, dbVersion, chats, messages, ids, sweepPending, send, toggle,
                   imp, fork, edit, archive, config, fileConfig, exported,
                   refs, promptStore>>

----------------------------------------------------------------------------
(* The configuration: App state, SettingsModal, exportData *)
ApiKeys == {"", "key-a", "key-b"}

DEFAULT_CONFIG == [apiKey |-> "", searchGrounding |-> FALSE]

Configs == [apiKey : ApiKeys, searchGrounding : BOOLEAN]

\* data.config || null when the backup file carries no configuration
NoConfig == [absent |-> TRUE]

\* no export has run yet
NoFile == [written |-> FALSE]

\* a sanitising step that keeps the key
exportConfigVerbatim(cfg) == cfg

\* exportData: const exportConfig = { ...config, apiKey: '' }
exportConfig(cfg) == [cfg EXCEPT !.apiKey = ""]

\* the manifest exportData serialises into okobit_data.json
exportManifest(cfg, t, chs, msgs, imgs) ==
    [exportedAt |-> t, config |-> exportConfig(cfg), data |-> exportData(chs, msgs, imgs)]

\* an import that saves the archive's configuration as it is
performImportVerbatim(localConfig, newConfig) ==
    IF newConfig # NoConfig THEN newConfig ELSE localConfig

\* handleImport.performImport: the configuration passed to onSave
performImport(localConfig, newConfig) ==
    LET finalConfig == IF newConfig # NoConfig THEN newConfig ELSE localConfig
    IN  IF finalConfig.apiKey = "" /\ localConfig.apiKey # ""
        THEN [finalConfig EXCEPT !.apiKey = localConfig.apiKey]
        ELSE finalConfig

\* handleValidateAndSave (a key that validates) and handleRemoveKey (the empty key)
handleChangeApiKey(key) ==
    /\ imp.pc = "idle"
    /\ config.apiKey # key
    /\ config' = [config EXCEPT !.apiKey = key]
    /\ last' = Op("handleChange", {})
    /\ UNCHANGED <<now, dbVersion, store, ids, sweepPending, send, toggle, lightbox, imp,
                   fork, edit, archive, fileConfig, exported,
                   refs, promptStore>>

\* the search grounding switch of the prompt bar
toggleSearchGrounding ==
    /\ imp.pc = "idle"
    /\ config' = [config EXCEPT !.searchGrounding = ~config.searchGrounding]
    /\ last' = Op("handleChange", {})
    /\ UNCHANGED <<now, dbVersion, store, ids, sweepPending, send, toggle, lightbox, imp,
                   fork, edit, archive, fileConfig, exported,
                   refs, promptStore>>

\* SettingsModal.handleExport: exportData(localConfig)
handleExport ==
    /\ DbReady
    /\ imp.pc = "idle"
    /\ exported' = exportManifest(config, now, chats, messages, images)
    /\ last' = Op("exportData", {})
    /\ UNCHANGED <<now, dbVersion, store, ids, sweepPending, send, toggle, lightbox, imp,
                   fork, edit, archive, config, fileConfig,
                   refs, promptStore>>

----------------------------------------------------------------------------
(* importData and importLegacyJson *)
HasArchive == DOMAIN archive.chats # {}

\* Transaction 1: merge chats and messages
ImportMetadata ==
    /\ MayStart
    /\ imp.pc = "idle"
    /\ HasArchive
    /\ LET r == importMetadata(chats, messages, archive) IN
         /\ chats' = r.chats
         /\ messages' = r.messages
    /\ imp' = IF Len(archive.imageOrder) > 0
              THEN [ImportIdle EXCEPT !.pc = "batch_read"] ELSE ImportIdle
    /\ config' = IF Len(archive.imageOrder) > 0 THEN config
                 ELSE performImport(config, fileConfig)
    /\ last' = Op("import:metadata", DOMAIN messages' \ DOMAIN messages)
    /\ UNCHANGED <<now, dbVersion, images, ids, sweepPending, send, toggle, lightbox,
                   fork, edit, archive, fileConfig, exported,
                   refs, promptStore>>

\* a batch: which of its ids the images table already has
ImportBatchRead ==
    /\ imp.pc = "batch_read"
    /\ imp' = [imp EXCEPT !.pc = "batch_add",
                          !.candidates = BatchIds(archive, imp.i) \ DOMAIN images]
    /\ UNCHANGED <<now, dbVersion, store, ids, sweepPending, send, toggle, lightbox,
                   fork, edit, archive, config, fileConfig, exported, last,
                   refs, promptStore>>

\* a batch: db.images.bulkAdd(itemsToAdd), then the next batch
ImportBatchAdd ==
    /\ imp.pc = "batch_add"
    /\ images' = importBatchAdd(images, archive, imp.candidates)
    /\ imp' = IF imp.i + BATCH_SIZE < Len(archive.imageOrder)
              THEN [pc |-> "batch_read", i |-> imp.i + BATCH_SIZE, candidates |-> {}]
              ELSE ImportIdle
    /\ config' = IF imp.i + BATCH_SIZE < Len(archive.imageOrder) THEN config
                 ELSE performImport(config, fileConfig)
    /\ last' = Op("import:images", DOMAIN images' \ DOMAIN images)
    /\ UNCHANGED <<now, dbVersion, chats, messages, ids, sweepPending, send, toggle,
                   lightbox, fork, edit, archive, fileConfig, exported,
                   refs, promptStore>>

ImportLegacy ==
    /\ DbReady
    /\ imp.pc = "idle"
    /\ HasArchive
    /\ LET r == importLegacyJson(chats, messages, images, archive) IN
         /\ chats' = r.chats
         /\ messages' = r.messages
         /\ images' = r.images
    /\ config' = performImport(config, fileConfig)
    /\ last' = Op("importLegacyJson", DOMAIN images' \ DOMAIN images)
    /\ UNCHANGED <<now, dbVersion, ids, sweepPending, send, toggle, lightbox, imp, fork, edit,
                   archive, fileConfig, exported,
                   refs, promptStore>>

----------------------------------------------------------------------------
(* handleFork.performFork *)

\* sortBy('timestamp') of a set of message ids
RECURSIVE SortByTimestamp(_, _)
SortByTimestamp(msgs, S) ==
    IF S = {} THEN <<>>
    ELSE LET m == CHOOSE x \in S : \A y \in S :
                     \/ msgs[x].timestamp < msgs[y].timestamp
                     \/ msgs[x].timestamp = msgs[y].timestamp /\ x <= y
         IN  <<msgs[m]>> \o SortByTimestamp(msgs, S \ {m})

\* a fork that copies the whole chat, the messages after the target included
msgsToCopyWholeChat(msgs, msgId) ==
    SortByTimestamp(msgs, {m \in DOMAIN msgs : msgs[m].chatId = msgs[msgId].chatId})

msgsToCopy(msgs, msgId) ==
    SortByTimestamp(msgs, {m \in DOMAIN msgs :
                              /\ msgs[m].chatId = msgs[msgId].chatId
                              /\ msgs[m].timestamp <= msgs[msgId].timestamp})

\* the copies, under fresh ids first, first + 1, ...
ForkCopies(rows, newChatId, first) ==
    [m \in first..(first + Len(rows) - 1) |->
        [rows[m - first + 1] EXCEPT !.chatId = newChatId]]

ForkRead(msgId) ==
    /\ MayStart
    /\ fork.pc = "idle"
    /\ nextChatId <= MaxChats
    /\ nextMsgId + Len(msgsToCopy(messages, msgId)) - 1 <= MaxMessages
    /\ fork' = [pc |-> "chat", msgId |-> msgId, chatId |-> nextChatId,
                rows |-> msgsToCopy(messages, msgId),
                generate |-> messages[msgId].role = "user"]
    /\ nextChatId' = nextChatId + 1
    /\ UNCHANGED <<now, dbVersion, store, nextMsgId, nextImgId, sweepPending, send,
                   toggle, lightbox, imp, edit, archive, config, fileConfig, exported, last,
                   refs, promptStore>>

ForkChat ==
    /\ fork.pc = "chat"
    /\ chats' = Put(chats, fork.chatId, ChatRow(now))
    /\ fork' = [fork EXCEPT !.pc = "messages"]
    /\ last' = Op("chats.add", {fork.chatId})
    /\ UNCHANGED <<now, dbVersion, messages, images, ids, sweepPending, send, toggle,
                   lightbox, imp, edit, archive, config, fileConfig, exported,
                   refs, promptStore>>

\* db.messages.bulkAdd(newMessages); a user target then starts a generation
ForkMessages ==
    /\ fork.pc = "messages"
    /\ nextMsgId + Len(fork.rows) - 1 <= MaxMessages
    /\ messages' = Merge(messages, ForkCopies(fork.rows, fork.chatId, nextMsgId))
    /\ nextMsgId' = nextMsgId + Len(fork.rows)
    /\ fork' = ForkIdle
    /\ send' = IF fork.generate /\ send.pc = "idle"
               THEN [SendIdle EXCEPT !.pc = "gen_call", !.chatId = fork.chatId]
               ELSE send
    /\ last' = Op("fork", nextMsgId..(nextMsgId + Len(fork.rows) - 1))
    /\ UNCHANGED <<now, dbVersion, chats, images, nextChatId, nextImgId, sweepPending,
                   toggle, lightbox, imp, edit, archive, config, fileConfig, exported,
                   refs, promptStore>>

----------------------------------------------------------------------------
(* handleEditMessage.performRegenerate *)

\* db.messages.get(msgId); keptIds come from the images the bubble shows
EditStart(msgId, keptIds, files) ==
    /\ MayStart
    /\ edit.pc = "idle"
    /\ messages[msgId].role = "user"
    /\ keptIds \subseteq Range(messages[msgId].imageIds) \cap DOMAIN images
    /\ nextImgId + Len(files) - 1 <= MaxImages
    /\ edit' = [EditIdle EXCEPT !.pc = "later", !.msgId = msgId,
                                !.chatId = messages[msgId].chatId,
                                !.targetImageIds = messages[msgId].imageIds,
                                !.kept = keptIds, !.files = files,
                                !.finalImageIds = FilterSeq(messages[msgId].imageIds, keptIds)]
    /\ UNCHANGED <<now, dbVersion, store, ids, sweepPending, send, toggle, lightbox, imp,
                   fork, archive, config, fileConfig, exported, last,
                   refs, promptStore>>

\* the messages of the chat after the target, as read
EditLater ==
    /\ edit.pc = "later"
    /\ edit' = [edit EXCEPT !.pc = "delete",
                  !.later = {m \in DOMAIN messages :
                                /\ messages[m].chatId = edit.chatId
                                /\ edit.msgId \in DOMAIN messages
                                /\ messages[m].timestamp > messages[edit.msgId].timestamp}]
    /\ UNCHANGED <<now, dbVersion, store, ids, sweepPending, send, toggle, lightbox, imp,
                   fork, archive, config, fileConfig, exported, last,
                   refs, promptStore>>

EditDelete ==
    /\ edit.pc = "delete"
    /\ LET r == deleteMessagesWithCleanup(images, messages, edit.later) IN
         /\ messages' = r.messages
         /\ images' = r.images
    /\ edit' = [edit EXCEPT !.pc = "files"]
    /\ last' = Op3("edit:deleteMessagesWithCleanup", edit.later,
                   ListedImages(messages, edit.later))
    /\ UNCHANGED <<now, dbVersion, chats, ids, sweepPending, send, toggle, lightbox, imp,
                   fork, archive, config, fileConfig, exported,
                   refs, promptStore>>

\* one turn of the file loop: abort the edit, or db.images.add
EditFile ==
    /\ edit.pc = "files" /\ edit.files # <<>>
    /\ IF ~Head(edit.files)
       THEN /\ edit' = EditIdle
            /\ last' = Op("edit:unsupportedFile", {})
            /\ UNCHANGED <<images, nextImgId>>
       ELSE /\ images' = Put(images, nextImgId, NewImage(now))
            /\ nextImgId' = nextImgId + 1
            /\ edit' = [edit EXCEPT !.files = Tail(@),
                                    !.finalImageIds = Append(@, nextImgId)]
            /\ last' = Op("images.add", {nextImgId})
    /\ UNCHANGED <<now, dbVersion, chats, messages, nextChatId, nextMsgId, sweepPending,
                   send, toggle, lightbox, imp, fork, archive, config, fileConfig, exported,
                   refs, promptStore>>

\* deleteImagesIfOrphaned(removedIds), called before the message is rewritten
EditOrphans ==
    /\ edit.pc = "files" /\ edit.files = <<>>
    /\ LET removedIds == Range(edit.targetImageIds) \ edit.kept IN
         /\ images' = deleteImagesIfOrphaned(images, messages, removedIds)
         /\ last' = Op("edit:deleteImagesIfOrphaned", removedIds)
    /\ edit' = [edit EXCEPT !.pc = "update"]
    /\ UNCHANGED <<now, dbVersion, chats, messages, ids, sweepPending, send, toggle,
                   lightbox, imp, fork, archive, config, fileConfig, exported,
                   refs, promptStore>>

\* db.messages.update(msgId, {text, imageIds}); then processGeneration
EditUpdate ==
    /\ edit.pc = "update"
    /\ messages' = IF edit.msgId \in DOMAIN messages
                   THEN [messages EXCEPT ![edit.msgId].imageIds = edit.finalImageIds]
                   ELSE messages
    /\ edit' = EditIdle
    /\ send' = IF send.pc = "idle"
               THEN [SendIdle EXCEPT !.pc = "gen_call", !.chatId = edit.chatId]
               ELSE send
    /\ last' = Op("edit:messages.update", {edit.msgId})
    /\ UNCHANGED <<now, dbVersion, chats, images, ids, sweepPending, toggle, lightbox,
                   imp, fork, archive, config, fileConfig, exported,
                   refs, promptStore>>

----------------------------------------------------------------------------
(* Initial stores *)
EmptyArchive ==
    [chats |-> EmptyTable, messages |-> EmptyTable, images |-> EmptyTable,
     imageOrder |-> <<>>]

\* a bookmarked row as schema version 2 stored it: no galleryTimestamp yet
V2Image(visible) ==
    [createdAt |-> 1, isGalleryVisible |-> visible, galleryTimestamp |-> UNDEFINED]

\* a configuration with a validated key, no backup configuration, no export yet
InitConfig ==
    /\ config = [DEFAULT_CONFIG EXCEPT !.apiKey = "key-a"]
    /\ fileConfig = NoConfig
    /\ exported = NoFile

\* no prompt was ever sent or saved
NoPrompts == prompts = EmptyTable /\ nextPromptId = 1

InitCommon ==
    /\ now = 1
    /\ sweepPending = TRUE
    /\ send = SendIdle
    /\ toggle = ToggleIdle
    /\ lightbox = LightboxIdle
    /\ imp = ImportIdle
    /\ fork = ForkIdle
    /\ edit = EditIdle
    /\ last = Op("open", {})
    /\ isGeneratingRef = FALSE /\ generatingChatIdRef = 0 /\ abortRef = 0
    /\ isSubmittingRef = FALSE
    /\ modalConfig = NoModal
    /\ runs = EmptyTable
    /\ promptOp = PromptIdle

\* a first start: the constructor creates the empty version-3 database
InitFresh ==
    /\ dbVersion = 3
    /\ chats = EmptyTable /\ messages = EmptyTable /\ images = EmptyTable
    /\ nextChatId = 1 /\ nextMsgId = 1 /\ nextImgId = 1

\* a start on a database an earlier release left at version 2
InitV2 ==
    /\ dbVersion = 2
    /\ chats = Put(EmptyTable, 1, ChatRow(1))
    /\ \E visible \in BOOLEAN :
         images = Put(EmptyTable, 1, V2Image(visible))
    /\ messages = Put(EmptyTable, 1, MessageRow(1, "model", <<1>>, 1, FALSE))
    /\ nextChatId = 2 /\ nextMsgId = 2 /\ nextImgId = 2

Init ==
    /\ InitCommon
    /\ NoPrompts
    /\ InitConfig
    /\ archive = EmptyArchive
    /\ InitFresh \/ InitV2

Next ==
    \/ Upgrade
    \/ Sweep
    \/ createNewChat
    \/ \E c \in DOMAIN chats : handleDeleteChat(c)
    \/ \E c \in DOMAIN chats, files \in FileLists : handleSendMessage(c, files)
    \/ SendFile
    \/ SendMessage
    \/ GenAbort
    \/ \E n \in 0..MaxGenImages : GenResult(n)
    \/ GenFail
    \/ GenImage
    \/ GenMessage
    \/ GenChat
    \/ \E S \in SUBSET DOMAIN messages : S # {} /\ handleDeleteMessage(S)
    \/ \E S \in SUBSET DOMAIN messages : S # {} /\ DeleteMessagesSafe(S)
    \/ \E S \in SUBSET Pickable(images) : S # {} /\ handleDeleteImage(S)
    \/ \E S \in SUBSET {i \in Pickable(images) : images[i].isGalleryVisible} :
           S # {} /\ BulkUnbookmark(S)
    \/ \E m \in DOMAIN messages : ToggleCount(m)
    \/ ToggleGet
    \/ ToggleWrite
    \/ \E i \in Pickable(images) : LightboxUnbookmark(i)
    \/ \E i \in Pickable(images) : LightboxCount(i)
    \/ LightboxWrite
    \/ \E m \in DOMAIN messages : ForkRead(m)
    \/ ForkChat
    \/ ForkMessages

Spec == Init /\ [][Next]_vars

----------------------------------------------------------------------------
(* Editing a sent message, with the sends and deletions around it *)
EditNext ==
    \/ Tick
    \/ Sweep
    \/ createNewChat
    \/ \E c \in DOMAIN chats, files \in FileLists : handleSendMessage(c, files)
    \/ SendFile
    \/ SendMessage
    \/ GenAbort
    \/ \E n \in 0..MaxGenImages : GenResult(n)
    \/ GenFail
    \/ GenImage
    \/ GenMessage
    \/ GenChat
    \/ \E m \in DOMAIN messages : handleDeleteMessage({m})
    \/ \E i \in Pickable(images) : LightboxUnbookmark(i)
    \/ \E i \in Pickable(images) : LightboxCount(i)
    \/ LightboxWrite
    \/ \E m \in DOMAIN messages, files \in FileLists :
           \E K \in SUBSET Range(messages[m].imageIds) : EditStart(m, K, files)
    \/ EditLater
    \/ EditDelete
    \/ EditFile
    \/ EditOrphans
    \/ EditUpdate

EditInit ==
    /\ InitCommon
    /\ NoPrompts
    /\ InitConfig
    /\ archive = EmptyArchive
    /\ InitFresh

EditSpec == EditInit /\ [][EditNext]_vars

----------------------------------------------------------------------------
(* Backup files *)
ArchImgIds == (MaxImages + 1)..(MaxImages + MaxArchImages)

\* an archive entry as exportData writes it; older exports carry no galleryTimestamp
ArchMetas ==
    {[createdAt |-> 1, isGalleryVisible |-> FALSE, galleryTimestamp |-> UNDEFINED],
     [createdAt |-> 1, isGalleryVisible |-> TRUE, galleryTimestamp |-> UNDEFINED],
     [createdAt |-> 1, isGalleryVisible |-> TRUE, galleryTimestamp |-> 1]}

\* the image existence invariant, of any three tables
NoOrphanIn(msgs, imgs) ==
    \A i \in DOMAIN imgs : imgs[i].isGalleryVisible \/ isImageReferenced(msgs, i)

NoDanglingIn(msgs, imgs) ==
    \A m \in DOMAIN msgs : Range(msgs[m].imageIds) \subseteq DOMAIN imgs

\* one chat with one message, and images the message lists or the gallery holds
Archives ==
    {a \in [chats : {Put(EmptyTable, MaxChats + 1, ChatRow(1))},
            messages : {Put(EmptyTable, MaxMessages + 1,
                            MessageRow(MaxChats + 1, "model", SetToSeq(R), 1, FALSE)) :
                        R \in SUBSET ArchImgIds},
            images : UNION {[S -> ArchMetas] : S \in SUBSET ArchImgIds},
            imageOrder : {SetToSeq(S) : S \in SUBSET ArchImgIds}] :
        /\ Range(a.imageOrder) = DOMAIN a.images
        /\ NoOrphanIn(a.messages, a.images)
        /\ NoDanglingIn(a.messages, a.images)}

ImportInit ==
    /\ InitCommon
    /\ NoPrompts
    /\ InitConfig
    /\ archive \in Archives
    /\ InitFresh \/ InitV2

ImportNext ==
    \/ Upgrade
    \/ ImportMetadata
    \/ ImportBatchRead
    \/ ImportBatchAdd
    \/ ImportLegacy
    \/ Sweep
    \/ \E c \in DOMAIN chats : handleDeleteChat(c)
    \/ \E S \in SUBSET DOMAIN messages : S # {} /\ handleDeleteMessage(S)
    \/ \E S \in SUBSET Pickable(images) : S # {} /\ handleDeleteImage(S)
    \/ \E S \in SUBSET {i \in Pickable(images) : images[i].isGalleryVisible} :
           S # {} /\ BulkUnbookmark(S)
    \/ \E m \in DOMAIN messages : ToggleCount(m)
    \/ ToggleGet
    \/ ToggleWrite
    \/ \E i \in Pickable(images) : LightboxUnbookmark(i)
    \/ \E i \in Pickable(images) : LightboxCount(i)
    \/ LightboxWrite

ImportSpec == ImportInit /\ [][ImportNext]_vars

----------------------------------------------------------------------------
(* A gallery at, or a few slots under, its cap *)
FillerIds(slack) ==
    (MaxImages + MaxArchImages + 1)..(MaxImages + MaxArchImages + GALLERY_CAP - slack)

BookmarkedImage(t) ==
    [createdAt |-> t, isGalleryVisible |-> TRUE, galleryTimestamp |-> t]

\* bookmarked images whose chats are gone, and one model message with two images
GalleryInit ==
    /\ InitCommon
    /\ NoPrompts
    /\ InitConfig
    /\ archive \in {a \in Archives : \E i \in DOMAIN a.images : a.images[i].isGalleryVisible}
    /\ dbVersion = 3
    /\ chats = Put(EmptyTable, 1, ChatRow(1))
    /\ messages = Put(EmptyTable, 1, MessageRow(1, "model", <<1, 2>>, 1, FALSE))
    /\ \E slack \in 0..MaxSlack :
         images = Merge([i \in {1, 2} |-> NewImage(1)],
                        [i \in FillerIds(slack) |-> BookmarkedImage(1)])
    /\ nextChatId = 2 /\ nextMsgId = 2 /\ nextImgId = 3

GalleryNext ==
    \/ \E m \in DOMAIN messages : ToggleCount(m)
    \/ ToggleGet
    \/ ToggleWrite
    \/ \E i \in Pickable(images) : LightboxUnbookmark(i)
    \/ \E i \in Pickable(images) : LightboxCount(i)
    \/ LightboxWrite
    \/ \E S \in SUBSET {i \in Pickable(images) : images[i].isGalleryVisible} :
           S # {} /\ BulkUnbookmark(S)
    \/ ImportMetadata
    \/ ImportBatchRead
    \/ ImportBatchAdd
    \/ ImportLegacy

GallerySpec == GalleryInit /\ [][GalleryNext]_vars

----------------------------------------------------------------------------
(* The image existence invariant and the gallery index *)

\* C1: between handlers every stored image is bookmarked or listed by a message
NoOrphanImages ==
    (DbReady /\ InFlight = 0) => NoOrphanIn(messages, images)

\* C2: every id a stored message lists is the id of a stored image
NoDanglingReferences == NoDanglingIn(messages, images)

\* C3: once the database is open, an image is bookmarked exactly when it has a
\* galleryTimestamp
SparseIndexInvariant ==
    DbReady => \A i \in DOMAIN images :
                  images[i].isGalleryVisible <=> images[i].galleryTimestamp # UNDEFINED

\* an archive import has just stored a bookmarked image whose entry had no timestamp
SparseIndexWitness ==
    /\ last.op = "import:images"
    /\ \E i \in last.ids :
         /\ archive.images[i].galleryTimestamp = UNDEFINED
         /\ images[i].isGalleryVisible
    /\ \E j \in DOMAIN images : ~images[j].isGalleryVisible

----------------------------------------------------------------------------
(* Deleting messages, chats and images *)
DeleteWithCleanupStep(S) == handleDeleteMessage(S) \/ DeleteMessagesSafe(S)

\* C4: when deleteMessagesWithCleanup or deleteMessagesSafe deletes messages that
\* list a not-bookmarked image X, X stays in the store exactly when a message
\* outside the deleted set still lists it: deleting one of two forked copies keeps
\* X, deleting the last copy (alone or together with the others) removes it
ReferenceSurvival ==
    [][\A S \in SUBSET DOMAIN messages :
          (S # {} /\ DeleteWithCleanupStep(S)) =>
              \A X \in ListedImages(messages, S) \cap DOMAIN images :
                  ~images[X].isGalleryVisible =>
                      (X \in DOMAIN images' <=>
                          \E m \in DOMAIN messages \ S : X \in Range(messages[m].imageIds))
      ]_vars

\* one copy of a forked message was deleted and its image is still stored, listed
\* by the copy in the other chat
ReferenceSurvivalWitness ==
    /\ last.op \in {"deleteMessagesWithCleanup", "deleteMessagesSafe"}
    /\ \E X \in last.seen \cap DOMAIN images :
         /\ ~images[X].isGalleryVisible
         /\ \E m \in DOMAIN messages : X \in Range(messages[m].imageIds)
    /\ Cardinality(DOMAIN chats) = 2

\* C5: deleting messages or a chat with cleanup, and the startup sweep, leave every
\* bookmarked image in the store with its row unchanged
GalleryProtection ==
    [][(\/ \E S \in SUBSET DOMAIN messages : S # {} /\ DeleteWithCleanupStep(S)
        \/ \E c \in DOMAIN chats : handleDeleteChat(c)
        \/ Sweep) =>
           \A i \in DOMAIN images :
               images[i].isGalleryVisible =>
                   (i \in DOMAIN images' /\ images'[i] = images[i])
      ]_vars

\* the only message listing a bookmarked image was deleted and the image is still
\* stored and bookmarked
GalleryProtectionWitness ==
    /\ last.op \in {"deleteMessagesWithCleanup", "deleteMessagesSafe"}
    /\ \E i \in last.seen \cap DOMAIN images :
         /\ images[i].isGalleryVisible
         /\ images[i].galleryTimestamp # UNDEFINED
         /\ ~isImageReferenced(messages, i)

\* C6: right after forceDeleteImages(ids) commits no image of ids is stored and no
\* message of any chat lists one
ForceDeletePropagation ==
    last.op = "forceDeleteImages" =>
        \A i \in last.ids : i \notin DOMAIN images /\ ~isImageReferenced(messages, i)

\* the deleted image was listed by messages of two chats, both still stored
ForceDeleteWitness ==
    /\ last.op = "forceDeleteImages"
    /\ Cardinality({messages[m].chatId : m \in last.seen \cap DOMAIN messages}) >= 2

----------------------------------------------------------------------------
(* The gallery cap *)

\* C7: a bookmark attempted while 50 images are bookmarked changes no image row,
\* through the Lightbox (whose sparse-index count is then 50) and through
\* handleToggleGallery
GalleryCapRejection ==
    [][/\ \A i \in DOMAIN images :
            (LightboxCount(i) /\ GalleryCount(images) = GALLERY_CAP)
                => lightbox'.count = GALLERY_CAP
       /\ (LightboxWrite /\ lightbox.count = GALLERY_CAP) => images' = images
       /\ (/\ ToggleWrite
           /\ toggle.currentCount = GALLERY_CAP
           /\ \E k \in DOMAIN toggle.valid : ~toggle.valid[k].isGalleryVisible)
                => images' = images
      ]_vars

\* the Lightbox refused a bookmark and the gallery still holds 50 images
GalleryCapRejectionWitness ==
    /\ last.op = "lightbox:galleryFull"
    /\ GalleryCount(images) = GALLERY_CAP
    /\ \A i \in last.ids : i \in DOMAIN images /\ ~images[i].isGalleryVisible

\* C8: never more than 50 bookmarked images
HardGalleryCap == GalleryCount(images) <= GALLERY_CAP

\* C9: a bulk bookmark with more not-yet-bookmarked images than free slots changes
\* no image row
BulkBookmarkAllOrNothing ==
    [][(/\ ToggleWrite
        /\ LET notYet == {k \in DOMAIN toggle.valid : ~toggle.valid[k].isGalleryVisible}
           IN  /\ notYet # {}
               /\ Cardinality(notYet) > GALLERY_CAP - toggle.currentCount)
           => images' = images
      ]_vars

\* two images were offered with one slot free, and neither got bookmarked
BulkBookmarkWitness ==
    /\ last.op = "toggle:galleryFull"
    /\ Cardinality(last.ids) = 2
    /\ GalleryCount(images) = GALLERY_CAP - 1
    /\ \A i \in last.ids : i \in DOMAIN images /\ ~images[i].isGalleryVisible

----------------------------------------------------------------------------
(* Import and the image existence invariant *)
StoreOK(msgs, imgs) == NoOrphanIn(msgs, imgs) /\ NoDanglingIn(msgs, imgs)

\* C10: from a store and an archive that both satisfy the image existence
\* invariant, importData run to completion produces a store that satisfies it
ImportPreservesInvariant ==
    (/\ DbReady /\ InFlight = 0 /\ HasArchive
     /\ StoreOK(messages, images)
     /\ StoreOK(archive.messages, archive.images))
    => LET merged == importData(chats, messages, images, archive)
       IN  StoreOK(merged.messages, merged.images)

\* C11: importing the same archive a second time, with nothing in between, leaves
\* the chats, messages and images tables as the first import left them
ImportIdempotent ==
    (DbReady /\ imp.pc = "idle" /\ HasArchive)
    => LET once  == importData(chats, messages, images, archive)
           twice == importData(once.chats, once.messages, once.images, archive)
       IN  twice = once

\* an import of an archive with images has just completed and added no image:
\* every chat, message and image of the archive was in the store already
ImportIdempotentWitness ==
    /\ last.op = "import:images" /\ last.ids = {} /\ imp.pc = "idle"
    /\ DOMAIN archive.images # {}
    /\ DOMAIN archive.images \subseteq DOMAIN images
    /\ DOMAIN archive.messages \subseteq DOMAIN messages
    /\ DOMAIN archive.chats \subseteq DOMAIN chats

\* the rows a table held before a step are in it, unchanged, after the step
RowsKept(table, tableAfter) ==
    \A id \in DOMAIN table : id \in DOMAIN tableAfter /\ tableAfter[id] = table[id]

\* C12: no step of importData overwrites or deletes a chat, a message or an image
\* whose id was in the store, whatever the archive holds for that id
ImportAdditive ==
    [][(ImportMetadata \/ ImportBatchRead \/ ImportBatchAdd) =>
          /\ RowsKept(chats, chats')
          /\ RowsKept(messages, messages')
          /\ RowsKept(images, images')
      ]_vars

\* an import has completed over a store whose message and image differ from the
\* archive's rows of the same ids, and they still differ
ImportAdditiveWitness ==
    /\ last.op = "import:images" /\ imp.pc = "idle"
    /\ \E i \in (DOMAIN archive.images \cap DOMAIN images) \ last.ids :
          images[i] # ImportedImage(archive.images[i])
    /\ \E m \in DOMAIN archive.messages \cap DOMAIN messages :
          messages[m] # archive.messages[m]

\* C13: exporting the store and importing the archive into an empty store gives
\* the chats, messages and images of the source store, with the same ids, imageIds,
\* createdAt, isGalleryVisible and galleryTimestamp
ExportImportRoundTrip ==
    (DbReady /\ InFlight = 0)
    => LET file == exportData(chats, messages, images)
           copy == importData(EmptyTable, EmptyTable, EmptyTable, file)
       IN  /\ copy.chats = chats
           /\ copy.messages = messages
           /\ copy.images = images

\* a store with two chats, a bookmarked image and an image that is not bookmarked
\* comes back from the round trip with the bookmark and its galleryTimestamp
ExportImportRoundTripWitness ==
    /\ DbReady /\ InFlight = 0
    /\ Cardinality(DOMAIN chats) >= 2
    /\ \E m \in DOMAIN messages : messages[m].imageIds # <<>>
    /\ \E i \in DOMAIN images : ~images[i].isGalleryVisible
    /\ \E i \in DOMAIN images :
          /\ images[i].isGalleryVisible
          /\ importData(EmptyTable, EmptyTable, EmptyTable,
                        exportData(chats, messages, images)).images[i].galleryTimestamp
                = images[i].galleryTimestamp

----------------------------------------------------------------------------
(* Export, import and the configuration *)

\* a backup file has no configuration, or any configuration: exportData writes an
\* empty apiKey, a hand-made or older file may carry one
FileConfigs == {NoConfig} \cup Configs

ConfigInit ==
    /\ InitCommon
    /\ NoPrompts
    /\ InitFresh
    /\ archive \in Archives
    /\ config \in Configs
    /\ fileConfig \in FileConfigs
    /\ exported = NoFile

ConfigNext ==
    \/ Tick
    \/ \E key \in ApiKeys : handleChangeApiKey(key)
    \/ toggleSearchGrounding
    \/ handleExport
    \/ ImportMetadata
    \/ ImportBatchRead
    \/ ImportBatchAdd
    \/ ImportLegacy

ConfigSpec == ConfigInit /\ [][ConfigNext]_vars

\* C14: the manifest exportData writes is the same whatever the apiKey of the
\* configuration it is given, and the configuration in it has an empty apiKey
ExportHidesApiKey ==
    /\ \A key \in ApiKeys :
          exportManifest([config EXCEPT !.apiKey = key], now, chats, messages, images)
              = exportManifest(config, now, chats, messages, images)
    /\ exportManifest(config, now, chats, messages, images).config.apiKey = ""
    /\ exported # NoFile => exported.config.apiKey = ""

\* an export has just run with a key configured over a store that is not empty
ExportHidesApiKeyWitness ==
    /\ last.op = "exportData"
    /\ config.apiKey # ""
    /\ exported.config = [config EXCEPT !.apiKey = ""]
    /\ DOMAIN exported.data.images # {}

\* the step of an import that hands the final configuration to onSave
ImportSavesConfig ==
    \/ ImportLegacy
    \/ (ImportMetadata \/ ImportBatchAdd) /\ imp'.pc = "idle"

----------------------------------------------------------------------------
(* Failures inside the lifecycle operations *)
Tables(chs, msgs, imgs) == [chats |-> chs, messages |-> msgs, images |-> imgs]

\* a write, the tables it leaves, and whether it runs inside db.transaction
Step(inTransaction, tables) == [inTransaction |-> inTransaction, tables |-> tables]

\* writes that reach the store one by one and stay there when a later one fails
transactionKeepingWrites(before, steps, failAt) ==
    IF failAt = 0 \/ failAt > Len(steps)
    THEN [tables |-> IF steps = <<>> THEN before ELSE steps[Len(steps)].tables,
          threw |-> FALSE]
    ELSE [tables |-> IF failAt = 1 THEN before ELSE steps[failAt - 1].tables,
          threw |-> TRUE]

\* the steps of an operation run to the end (failAt = 0) or until step failAt
\* throws: the transaction aborts, its writes are undone, and the promise the
\* operation returned rejects
transaction(before, steps, failAt) ==
    IF failAt = 0 \/ failAt > Len(steps)
    THEN [tables |-> IF steps = <<>> THEN before ELSE steps[Len(steps)].tables,
          threw |-> FALSE]
    ELSE LET durable == {k \in 1..(failAt - 1) : ~steps[k].inTransaction}
         IN  [tables |-> IF durable = {} THEN before
                         ELSE steps[CHOOSE k \in durable : \A j \in durable : j <= k].tables,
              threw |-> TRUE]

deleteImagesIfOrphanedSteps(T, imageIds) ==
    IF imageIds = {} THEN <<>>
    ELSE <<Step(TRUE, [T EXCEPT !.images = deleteImagesIfOrphaned(T.images, T.messages, imageIds)])>>

\* a forced deletion that opens its transaction for an empty list as well
forceDeleteImagesStepsUnguarded(T, imageIds) ==
    LET r == forceDeleteImages(T.images, T.messages, imageIds)
    IN  <<Step(TRUE, [T EXCEPT !.images = r.images]),
          Step(TRUE, [T EXCEPT !.images = r.images, !.messages = r.messages])>>

forceDeleteImagesSteps(T, imageIds) ==
    IF imageIds = {} THEN <<>>
    ELSE LET r == forceDeleteImages(T.images, T.messages, imageIds)
         IN  <<Step(TRUE, [T EXCEPT !.images = r.images]),
               Step(TRUE, [T EXCEPT !.images = r.images, !.messages = r.messages])>>

deleteMessagesWithCleanupSteps(T, messageIds) ==
    IF messageIds = {} THEN <<>>
    ELSE LET r == deleteMessagesWithCleanup(T.images, T.messages, messageIds)
         IN  <<Step(TRUE, [T EXCEPT !.messages = r.messages]),
               Step(TRUE, [T EXCEPT !.messages = r.messages, !.images = r.images])>>

deleteMessagesSafeSteps(T, messageIds) ==
    LET r == deleteMessagesSafe(T.images, T.messages, messageIds)
    IN  <<Step(TRUE, [T EXCEPT !.images = r.images]),
          Step(TRUE, [T EXCEPT !.images = r.images, !.messages = r.messages])>>

deleteChatWithCleanupSteps(T, chatId) ==
    LET r == deleteChatWithCleanup(T.chats, T.images, T.messages, chatId)
    IN  <<Step(TRUE, [T EXCEPT !.messages = r.messages]),
          Step(TRUE, [T EXCEPT !.messages = r.messages, !.chats = r.chats]),
          Step(TRUE, r)>>

\* cleanupOrphanedImages with its try/catch: the tables it leaves and the count
\* it returns; nothing is thrown past it
cleanupOrphanedImagesSteps(T) ==
    <<Step(TRUE, [T EXCEPT !.images = cleanupOrphanedImages(T.images, T.messages).images])>>

\* a sweep without the catch: the failure of its transaction is thrown on
cleanupOrphanedImagesRethrow(T, failAt) ==
    LET r == transaction(T, cleanupOrphanedImagesSteps(T), failAt)
    IN  [tables |-> r.tables, threw |-> r.threw,
         count |-> IF r.threw THEN 0
                   ELSE cleanupOrphanedImages(T.images, T.messages).count]

cleanupOrphanedImagesOutcome(T, failAt) ==
    LET r == transaction(T, cleanupOrphanedImagesSteps(T), failAt)
    IN  [tables |-> r.tables, threw |-> FALSE,
         count |-> IF r.threw THEN 0
                   ELSE cleanupOrphanedImages(T.images, T.messages).count]

\* the steps an operation may fail at; 0 is a run without failure
FailPoints(steps) == 0..Len(steps)

\* a lifecycle operation is called and runs to its end or fails on the way
callService(name, steps, failAt, args) ==
    /\ DbReady
    /\ failAt \in FailPoints(steps)
    /\ LET r == transaction(Tables(chats, messages, images), steps, failAt) IN
         /\ chats' = r.tables.chats
         /\ messages' = r.tables.messages
         /\ images' = r.tables.images
         /\ last' = Op3(IF r.threw THEN name \o ":threw" ELSE name, args, {failAt})
    /\ UNCHANGED <<now, dbVersion, ids, sweepPending, send, toggle, lightbox, imp, fork, edit,
                   archive, config, fileConfig, exported,
                   refs, promptStore>>

callDeleteImagesIfOrphaned(imageIds, failAt) ==
    callService("deleteImagesIfOrphaned",
                deleteImagesIfOrphanedSteps(Tables(chats, messages, images), imageIds),
                failAt, imageIds)

callForceDeleteImages(imageIds, failAt) ==
    callService("forceDeleteImages",
                forceDeleteImagesSteps(Tables(chats, messages, images), imageIds),
                failAt, imageIds)

callDeleteMessagesWithCleanup(messageIds, failAt) ==
    callService("deleteMessagesWithCleanup",
                deleteMessagesWithCleanupSteps(Tables(chats, messages, images), messageIds),
                failAt, messageIds)

callDeleteMessagesSafe(messageIds, failAt) ==
    callService("deleteMessagesSafe",
                deleteMessagesSafeSteps(Tables(chats, messages, images), messageIds),
                failAt, messageIds)

callDeleteChatWithCleanup(chatId, failAt) ==
    callService("deleteChatWithCleanup",
                deleteChatWithCleanupSteps(Tables(chats, messages, images), chatId),
                failAt, {chatId})

\* the mount effect's sweep, with the count it returned recorded in last.ids
callCleanupOrphanedImages(failAt) ==
    /\ DbReady
    /\ failAt \in FailPoints(cleanupOrphanedImagesSteps(Tables(chats, messages, images)))
    /\ LET r == cleanupOrphanedImagesOutcome(Tables(chats, messages, images), failAt) IN
         /\ images' = r.tables.images
         /\ last' = Op3(IF r.threw THEN "cleanupOrphanedImages:threw"
                        ELSE "cleanupOrphanedImages", {r.count}, {failAt})
    /\ UNCHANGED <<now, dbVersion, chats, messages, ids, sweepPending, send, toggle, lightbox,
                   imp, fork, edit, archive, config, fileConfig, exported,
                   refs, promptStore>>

\* stores of a few chats, one message each chat may hold, and images that are
\* bookmarked or not
FailureStores ==
    {T \in [chats : {[c \in 1..MaxChats |-> ChatRow(1)]},
            messages : {[m \in 1..MaxMessages |->
                            MessageRow(((m - 1) % MaxChats) + 1, "model", SetToSeq(L[m]), 1, FALSE)] :
                        L \in [1..MaxMessages -> SUBSET (1..MaxImages)]},
            images : [1..MaxImages -> {NewImage(1), BookmarkedImage(1)}]] : TRUE}

FailureInit ==
    /\ InitCommon
    /\ NoPrompts
    /\ InitConfig
    /\ archive = EmptyArchive
    /\ dbVersion = 3
    /\ \E T \in FailureStores :
          chats = T.chats /\ messages = T.messages /\ images = T.images
    /\ nextChatId = MaxChats + 1 /\ nextMsgId = MaxMessages + 1 /\ nextImgId = MaxImages + 1

\* the ids a caller may pass: of rows that are stored and of rows that are gone
RequestedImageIds == SUBSET (1..MaxImages)

RequestedMessageIds == SUBSET (1..MaxMessages)

FailureNext ==
    \/ \E I \in RequestedImageIds, k \in 0..1 : callDeleteImagesIfOrphaned(I, k)
    \/ \E I \in RequestedImageIds, k \in 0..2 : callForceDeleteImages(I, k)
    \/ \E S \in RequestedMessageIds, k \in 0..2 : callDeleteMessagesWithCleanup(S, k)
    \/ \E S \in RequestedMessageIds, k \in 0..2 : callDeleteMessagesSafe(S, k)
    \/ \E c \in DOMAIN chats, k \in 0..3 : callDeleteChatWithCleanup(c, k)
    \/ \E k \in 0..1 : callCleanupOrphanedImages(k)

FailureSpec == FailureInit /\ [][FailureNext]_vars

\* what calls of the five operations leave in last.op when they return, and
\* (last.seen holding the step that failed) when they throw
CalledOps == {"deleteImagesIfOrphaned", "forceDeleteImages",
              "deleteMessagesWithCleanup", "deleteMessagesSafe",
              "deleteChatWithCleanup"}

ThrewOps == {"deleteImagesIfOrphaned:threw", "forceDeleteImages:threw",
             "deleteMessagesWithCleanup:threw", "deleteMessagesSafe:threw",
             "deleteChatWithCleanup:threw"}

\* C16: when a step of deleteImagesIfOrphaned, forceDeleteImages,
\* deleteMessagesWithCleanup, deleteMessagesSafe or deleteChatWithCleanup fails, the
\* call leaves the chats, messages and images tables as they were and throws
AtomicOnFailure ==
    [][(/\ last'.op \in CalledOps \cup ThrewOps
        /\ last'.seen # {0})
          => (store' = store /\ last'.op \in ThrewOps)
      ]_vars

\* deleteChatWithCleanup failed at its last step, after it had deleted the chat and
\* its messages inside the transaction: the chat, its messages and an image only
\* they list are in the store
AtomicOnFailureWitness ==
    /\ last.op = "deleteChatWithCleanup:threw"
    /\ last.seen = {3}
    /\ \A c \in last.ids :
          /\ c \in DOMAIN chats
          /\ \E m \in DOMAIN messages :
                /\ messages[m].chatId = c
                /\ \E i \in Range(messages[m].imageIds) \cap DOMAIN images :
                      /\ ~images[i].isGalleryVisible
                      /\ \A n \in DOMAIN messages :
                            i \in Range(messages[n].imageIds) => messages[n].chatId = c

SweepOps == {"cleanupOrphanedImages", "cleanupOrphanedImages:threw"}

\* the images a sweep has to delete: outside the gallery and listed by no message
Orphans(msgs, imgs) ==
    {i \in DOMAIN imgs : ~imgs[i].isGalleryVisible /\ ~isImageReferenced(msgs, i)}

\* C17: a cleanupOrphanedImages whose transaction fails throws nothing, returns 0
\* and leaves the images and messages tables as they were
SweepNeverThrows ==
    [][(last'.op \in SweepOps /\ last'.seen # {0})
          => /\ last'.op = "cleanupOrphanedImages"
             /\ last'.ids = {0}
             /\ images' = images /\ messages' = messages
      ]_vars

\* the sweep failed with an orphan in the store, returned 0, and the orphan is there
SweepNeverThrowsWitness ==
    /\ last.op = "cleanupOrphanedImages"
    /\ last.seen = {1}
    /\ last.ids = {0}
    /\ Orphans(messages, images) # {}

\* C18: a cleanupOrphanedImages that succeeds deletes exactly the images that are
\* outside the gallery and listed by no message, leaves every other image and
\* every message as it was, and returns the number of images it deleted
FullSweepResult ==
    [][(last'.op = "cleanupOrphanedImages" /\ last'.seen = {0})
          => /\ DOMAIN images' = DOMAIN images \ Orphans(messages, images)
             /\ \A i \in DOMAIN images' : images'[i] = images[i]
             /\ messages' = messages
             /\ last'.ids = {Cardinality(Orphans(messages, images))}
      ]_vars

\* the sweep returned 1: it deleted an orphan and kept a bookmarked image that no
\* message lists
FullSweepResultWitness ==
    /\ last.op = "cleanupOrphanedImages"
    /\ last.seen = {0}
    /\ last.ids = {1}
    /\ Cardinality(DOMAIN images) = MaxImages - 1
    /\ \E i \in DOMAIN images :
          images[i].isGalleryVisible /\ ~isImageReferenced(messages, i)

----------------------------------------------------------------------------
(* The startup sweep next to handlers in flight *)

\* the images a handler in flight has added, or read, and will list in the
\* message rows it writes next
PendingImageIds ==
    Range(send.imageIds) \cup UNION {Range(fork.rows[k].imageIds) : k \in DOMAIN fork.rows}

\* C19: the startup sweep deletes no image that a send, a generation or a fork in
\* progress goes on to list in a message
SweepSparesPendingImages ==
    [][Sweep => \A i \in DOMAIN images \ DOMAIN images' : i \notin PendingImageIds]_vars

----------------------------------------------------------------------------
(* Orphans and the sweep of the next start *)

\* the page is loaded again: handlers in flight are gone with the page, the
\* database and the saved settings stay, and the mount effect runs its sweep anew
Reload ==
    /\ sweepPending' = TRUE
    /\ send' = SendIdle
    /\ toggle' = ToggleIdle
    /\ lightbox' = LightboxIdle
    /\ imp' = ImportIdle
    /\ fork' = ForkIdle
    /\ edit' = EditIdle
    /\ last' = Op("reload", {})
    /\ UNCHANGED <<now, dbVersion, chats, messages, images, ids,
                   archive, config, fileConfig, exported,
                   refs, promptStore>>

LiveNext ==
    \/ Next
    \/ Reload

\* the upgrade and the mount sweep are started by the page itself and run to
\* their commit; the application is started again and again
LiveSpec ==
    /\ Init
    /\ [][LiveNext]_vars
    /\ WF_vars(Upgrade)
    /\ WF_vars(Sweep)
    /\ WF_vars(Reload)

----------------------------------------------------------------------------
(* Editing a message *)

\* the ids an edit in flight takes off its message
EditRemovedIds == Range(edit.targetImageIds) \ edit.kept

\* C21: when the edit's messages.update has committed, every image the edit took
\* off the message that is outside the gallery and listed by no message is deleted
EditCleansRemovedImages ==
    [][EditUpdate => \A i \in EditRemovedIds :
                        i \in DOMAIN images' => \/ images'[i].isGalleryVisible
                                                \/ isImageReferenced(messages', i)
      ]_vars

\* a list of attached files holds one that getEffectiveMimeType finds no type for
HasUnsupportedFile(files) == \E k \in DOMAIN files : ~files[k]

\* C22: a send or an edit that is rejected for an attached file of unrecognized
\* type writes nothing: none of its steps changes the chats, messages or images
RejectedAttemptWritesNothing ==
    [][ \/ SendFile /\ HasUnsupportedFile(send.files)
        \/ (EditDelete \/ EditFile) /\ HasUnsupportedFile(edit.files)
        => store' = store
      ]_vars

----------------------------------------------------------------------------
(* Deleting a chat *)

\* the images the messages of a chat list
ChatImages(msgs, chatId) ==
    ListedImages(msgs, {m \in DOMAIN msgs : msgs[m].chatId = chatId})

\* C23: deleteChatWithCleanup(chatId) removes the chat and its messages, deletes
\* exactly the images those messages listed that are then outside the gallery and
\* listed by no message, and changes no other chat, message or image
ChatDeletionCascades ==
    [][\A c \in DOMAIN chats : handleDeleteChat(c) =>
          /\ DOMAIN chats' = DOMAIN chats \ {c}
          /\ \A d \in DOMAIN chats' : chats'[d] = chats[d]
          /\ DOMAIN messages' = {m \in DOMAIN messages : messages[m].chatId # c}
          /\ \A m \in DOMAIN messages' : messages'[m] = messages[m]
          /\ DOMAIN images \ DOMAIN images' =
                {i \in ChatImages(messages, c) \cap DOMAIN images :
                    ~images[i].isGalleryVisible /\ ~isImageReferenced(messages', i)}
          /\ \A i \in DOMAIN images' : i \in DOMAIN images /\ images'[i] = images[i]
      ]_vars

\* a chat was deleted with an image only its messages listed, while another chat
\* keeps a message and the image that message lists
ChatDeletionCascadesWitness ==
    /\ last.op = "deleteChatWithCleanup"
    /\ \E i \in last.seen : i \notin DOMAIN images
    /\ \E m \in DOMAIN messages :
          /\ messages[m].chatId \in DOMAIN chats
          /\ Range(messages[m].imageIds) \cap DOMAIN images # {}

----------------------------------------------------------------------------
(* Bookmarking twice, unbookmarking twice *)

\* C24: a bookmark leaves every image that is already bookmarked as it is, flag and
\* timestamp, also in a bulk bookmark over a mixed set; an unbookmark leaves every
\* image that is not bookmarked as it is
GalleryOpsIdempotent ==
    [][ /\ (ToggleWrite /\ Unsaved(toggle.valid) # <<>>) \/ LightboxWrite
           => \A i \in DOMAIN images :
                 images[i].isGalleryVisible => images'[i] = images[i]
        /\ \/ ToggleWrite /\ Unsaved(toggle.valid) = <<>>
           \/ \E i \in Pickable(images) : LightboxUnbookmark(i)
           \/ \E S \in SUBSET Pickable(images) : BulkUnbookmark(S)
           => \A i \in DOMAIN images :
                 ~images[i].isGalleryVisible => images'[i] = images[i]
        /\ DbReady => \A i \in Pickable(images) :
              IF images[i].isGalleryVisible
              THEN Bookmark(images, i, images[i].createdAt) = images
              ELSE handleBulkUnbookmark(images, {i}) = images
      ]_vars

\* a bulk bookmark over one bookmarked and one not yet bookmarked image went
\* through
GalleryOpsIdempotentWitness ==
    /\ last.op = "toggle:bookmark"
    /\ last.seen # {}
    /\ last.ids \ last.seen # {}
    /\ \A i \in last.ids : i \in DOMAIN images /\ images[i].isGalleryVisible

----------------------------------------------------------------------------
(* Empty requests *)

\* C25: deleteImagesIfOrphaned([]), forceDeleteImages([]) and
\* deleteMessagesWithCleanup([]) open no transaction, so no step of theirs can
\* fail, and they leave every table as it was
EmptyRequestIsNoOp ==
    [][ (\E k \in 0..2 : \/ callDeleteImagesIfOrphaned({}, k)
                          \/ callForceDeleteImages({}, k)
                          \/ callDeleteMessagesWithCleanup({}, k))
        => LET T == Tables(chats, messages, images) IN
             /\ deleteImagesIfOrphanedSteps(T, {}) = <<>>
             /\ forceDeleteImagesSteps(T, {}) = <<>>
             /\ deleteMessagesWithCleanupSteps(T, {}) = <<>>
             /\ store' = store
             /\ last'.op \notin ThrewOps
      ]_vars

\* forceDeleteImages([]) has returned on a store that holds an orphan and a
\* message listing an image
EmptyRequestIsNoOpWitness ==
    /\ last.op = "forceDeleteImages"
    /\ last.ids = {}
    /\ Orphans(messages, images) # {}
    /\ \E m \in DOMAIN messages : messages[m].imageIds # <<>>

----------------------------------------------------------------------------
(* What the candidate sweep and the forced deletion touch *)

\* C26: deleteImagesIfOrphaned(ids) deletes exactly the stored images whose id is
\* in ids, that are outside the gallery and that no message lists; it changes no
\* other image, no message and no chat, and ids of no stored image are ignored
CandidateSweepExact ==
    [][\A I \in RequestedImageIds : callDeleteImagesIfOrphaned(I, 0) =>
          /\ DOMAIN images \ DOMAIN images' =
                {i \in I \cap DOMAIN images :
                    ~images[i].isGalleryVisible /\ ~isImageReferenced(messages, i)}
          /\ \A i \in DOMAIN images' : i \in DOMAIN images /\ images'[i] = images[i]
          /\ messages' = messages
          /\ chats' = chats
      ]_vars

\* the sweep of one id deleted that image and left an orphan it was not asked
\* about in the store
CandidateSweepExactWitness ==
    /\ last.op = "deleteImagesIfOrphaned"
    /\ Cardinality(last.ids) = 1
    /\ last.ids \cap DOMAIN images = {}
    /\ Orphans(messages, images) # {}

\* C27: for every list of message ids, of stored and of missing messages,
\* deleteMessagesSafe and deleteMessagesWithCleanup leave the same messages and
\* images tables
DeletionPathsAgree ==
    [][\A S \in RequestedMessageIds :
          /\ callDeleteMessagesSafe(S, 0) =>
                LET r == deleteMessagesWithCleanup(images, messages, S)
                IN  images' = r.images /\ messages' = r.messages
          /\ callDeleteMessagesWithCleanup(S, 0) =>
                LET r == deleteMessagesSafe(images, messages, S)
                IN  images' = r.images /\ messages' = r.messages
      ]_vars

\* deleteMessagesSafe deleted one message and an image with it, and the message
\* it left still lists an image outside the gallery
DeletionPathsAgreeWitness ==
    /\ last.op = "deleteMessagesSafe"
    /\ last.ids \cap DOMAIN messages = {}
    /\ Cardinality(DOMAIN images) = MaxImages - 1
    /\ \E m \in DOMAIN messages, i \in DOMAIN images :
          i \in Range(messages[m].imageIds) /\ ~images[i].isGalleryVisible

\* messages that list up to three images in any order, also one image twice
MaxListed == 3

ListedIds == 1..MaxListed

ImageLists(n) == UNION {[1..k -> ListedIds] : k \in 0..n}

ForceDeleteInit ==
    /\ InitCommon
    /\ NoPrompts
    /\ InitConfig
    /\ archive = EmptyArchive
    /\ dbVersion = 3
    /\ chats = Put(EmptyTable, 1, ChatRow(1))
    /\ \E first \in ImageLists(MaxListed), second \in ImageLists(1) :
          messages = Put(Put(EmptyTable, 1, MessageRow(1, "model", first, 1, FALSE)),
                         2, MessageRow(1, "user", second, 1, FALSE))
    /\ images \in [ListedIds -> {NewImage(1), BookmarkedImage(1)}]
    /\ nextChatId = 2 /\ nextMsgId = 3 /\ nextImgId = MaxListed + 1

ForceDeleteNext ==
    \E I \in SUBSET ListedIds, k \in 0..2 : callForceDeleteImages(I, k)

ForceDeleteSpec == ForceDeleteInit /\ [][ForceDeleteNext]_vars

\* C28: forceDeleteImages(ids) leaves in every message the ids outside ids, each
\* as often and in the order it was listed, changes no other field of a message,
\* no chat, and no image outside ids
ForceDeletePreservesRest ==
    [][LET I == last'.ids IN callForceDeleteImages(I, 0) =>
          /\ chats' = chats
          /\ DOMAIN images' = DOMAIN images \ I
          /\ \A i \in DOMAIN images' : images'[i] = images[i]
          /\ DOMAIN messages' = DOMAIN messages
          /\ \A m \in DOMAIN messages :
                LET s == messages[m].imageIds
                    r == messages'[m].imageIds
                    kept == {k \in DOMAIN s : s[k] \notin I}
                IN  /\ messages'[m] = [messages[m] EXCEPT !.imageIds = r]
                    /\ Len(r) = Cardinality(kept)
                    /\ \A k \in kept : r[Cardinality({j \in kept : j <= k})] = s[k]
      ]_vars

\* a forced deletion removed an image, and a message keeps two ids in an order
\* that is not the ascending one
ForceDeletePreservesRestWitness ==
    /\ last.op = "forceDeleteImages"
    /\ last.ids # {}
    /\ last.ids \cap DOMAIN images = {}
    /\ \E m \in DOMAIN messages :
          /\ Len(messages[m].imageIds) = 2
          /\ messages[m].imageIds[1] > messages[m].imageIds[2]
          /\ Range(messages[m].imageIds) \cap last.ids = {}

----------------------------------------------------------------------------
(* The two import paths on the same data *)

\* an image entry whose galleryTimestamp is present and is not its createdAt
TimestampedMeta ==
    [createdAt |-> 1, isGalleryVisible |-> TRUE, galleryTimestamp |-> MaxTime]

\* backup data as before, and the same data with the bookmarked images carrying
\* a galleryTimestamp of their own
MergeArchives ==
    Archives \cup
    {[a EXCEPT !.images = [i \in DOMAIN a.images |->
                              IF a.images[i].isGalleryVisible
                              THEN TimestampedMeta ELSE a.images[i]]] : a \in Archives}

MergeInit ==
    /\ InitCommon
    /\ NoPrompts
    /\ InitConfig
    /\ archive \in MergeArchives
    /\ InitFresh \/ InitV2

MergeNext ==
    \/ Upgrade
    \/ ImportMetadata
    \/ ImportBatchRead
    \/ ImportBatchAdd
    \/ ImportLegacy
    \/ \E c \in DOMAIN chats : handleDeleteChat(c)
    \/ \E S \in SUBSET Pickable(images) : S # {} /\ handleDeleteImage(S)

MergeSpec == MergeInit /\ [][MergeNext]_vars

----------------------------------------------------------------------------
(* Messages and their chats *)

\* C30: every stored message carries the id of a stored chat
MessagesBelongToChat ==
    \A m \in DOMAIN messages : messages[m].chatId \in DOMAIN chats

----------------------------------------------------------------------------
(* The version 3 migration *)

\* C39: the upgrade to schema version 3 gives every bookmarked image a
\* galleryTimestamp (its createdAt when it had none), gives no timestamp to an
\* image that is not bookmarked, and so leaves the count of the sparse index equal
\* to the number of bookmarked images
MigrationBackfill ==
    [][(dbVersion = 2 /\ dbVersion' = 3)
       => /\ DOMAIN images' = DOMAIN images
          /\ \A i \in DOMAIN images :
               /\ images'[i].isGalleryVisible = images[i].isGalleryVisible
               /\ images[i].isGalleryVisible
                  => images'[i].galleryTimestamp =
                       (IF images[i].galleryTimestamp = UNDEFINED
                        THEN images[i].createdAt
                        ELSE images[i].galleryTimestamp)
               /\ ~images[i].isGalleryVisible
                  => images'[i].galleryTimestamp = images[i].galleryTimestamp
          /\ SparseCount(images') = GalleryCount(images')]_vars

\* the upgrade has just stamped a bookmarked image of the version 2 store
MigrationBackfillWitness ==
    /\ last.op = "upgrade"
    /\ dbVersion = 3
    /\ \E i \in DOMAIN images :
         /\ images[i].isGalleryVisible
         /\ images[i].galleryTimestamp = images[i].createdAt

----------------------------------------------------------------------------
(* Appending to a chat *)

\* C38: once the handler that appended a message (the user message of a send, the
\* model message of a generation, the error message of a failed one) has run to
\* its end, the updatedAt of the message's chat is not earlier than the message's
\* timestamp
AppendBumpsChat ==
    send.pc = "idle"
    => \A m \in DOMAIN messages :
          messages[m].chatId \in DOMAIN chats
          => chats[messages[m].chatId].updatedAt >= messages[m].timestamp

----------------------------------------------------------------------------
(* Forking a chat *)

\* a chat of an earlier session: a user message with an attached image and the
\* model's answer with a generated one, under ids the session's counters never reach
ForkInit ==
    /\ InitCommon
    /\ NoPrompts
    /\ InitConfig
    /\ archive = EmptyArchive
    /\ dbVersion = 3
    /\ chats = Put(EmptyTable, MaxChats + 1, ChatRow(1))
    /\ \E t \in 0..1 :
         messages = Merge(
            Put(EmptyTable, MaxMessages + 1,
                MessageRow(MaxChats + 1, "user", <<MaxImages + 1>>, t, FALSE)),
            Put(EmptyTable, MaxMessages + 2,
                MessageRow(MaxChats + 1, "model", <<MaxImages + 2>>, 1, FALSE)))
    /\ images = [i \in {MaxImages + 1, MaxImages + 2} |-> NewImage(1)]
    /\ nextChatId = 1 /\ nextMsgId = 1 /\ nextImgId = 1

ForkNext ==
    \/ Tick
    \/ createNewChat
    \/ \E c \in DOMAIN chats, files \in FileLists : handleSendMessage(c, files)
    \/ SendFile
    \/ SendMessage
    \/ GenAbort
    \/ \E n \in 0..MaxGenImages : GenResult(n)
    \/ GenFail
    \/ GenImage
    \/ GenMessage
    \/ GenChat
    \/ \E m \in DOMAIN messages : handleDeleteMessage({m})
    \/ \E m \in DOMAIN messages : ForkRead(m)
    \/ ForkChat
    \/ ForkMessages

ForkSpec == ForkInit /\ [][ForkNext]_vars

\* C37: a fork at message T reads exactly the source chat's messages with
\* timestamp <= T.timestamp, adds one chat, and adds one copy of each message read
\* under a fresh id, with the same imageIds in the same order; no step of it
\* changes a stored chat, a stored message or the image table
ForkSharesImages ==
    [][/\ (fork.pc = "idle" /\ fork'.pc = "chat")
          => /\ store' = store
             /\ fork'.msgId \in DOMAIN messages
             /\ LET T == fork'.msgId
                     S == {m \in DOMAIN messages :
                               /\ messages[m].chatId = messages[T].chatId
                               /\ messages[m].timestamp <= messages[T].timestamp}
                  IN  /\ Len(fork'.rows) = Cardinality(S)
                      /\ \A m \in S :
                           Cardinality({k \in 1..Len(fork'.rows) : fork'.rows[k] = messages[m]})
                             = Cardinality({n \in S : messages[n] = messages[m]})
       /\ (fork.pc = "chat" /\ fork'.pc = "messages")
          => /\ DOMAIN chats' = DOMAIN chats \cup {fork.chatId}
             /\ fork.chatId \notin DOMAIN chats
             /\ \A c \in DOMAIN chats : chats'[c] = chats[c]
             /\ messages' = messages /\ images' = images
       /\ (fork.pc = "messages" /\ fork'.pc = "idle")
          => /\ chats' = chats /\ images' = images
             /\ \A m \in DOMAIN messages : m \in DOMAIN messages' /\ messages'[m] = messages[m]
             /\ Cardinality(DOMAIN messages' \ DOMAIN messages) = Len(fork.rows)
             /\ \E first \in DOMAIN messages' \ DOMAIN messages :
                  \A k \in 1..Len(fork.rows) :
                     /\ first + k - 1 \in DOMAIN messages' \ DOMAIN messages
                     /\ messages'[first + k - 1].chatId = fork.chatId
                     /\ messages'[first + k - 1].imageIds = fork.rows[k].imageIds
                     /\ messages'[first + k - 1].timestamp = fork.rows[k].timestamp
                     /\ messages'[first + k - 1].role = fork.rows[k].role]_vars

\* a fork has just copied a message with an image and left a later message of the
\* source chat out
ForkSharesImagesWitness ==
    /\ last.op = "fork"
    /\ \E n \in last.ids, m \in DOMAIN messages \ last.ids :
         /\ messages[n].imageIds # <<>>
         /\ messages[n].imageIds = messages[m].imageIds
         /\ \E l \in DOMAIN messages \ last.ids :
              /\ messages[l].chatId = messages[m].chatId
              /\ \A k \in last.ids : messages[l].timestamp > messages[k].timestamp

----------------------------------------------------------------------------
(* One generation at a time: the refs of App and the calls of processGeneration *)

MaxRuns == 2
MaxOverlap == 3

\* the 'Halt current generation?' dialog of handleCheckConflict, for the call r
ConflictModal(r) == [type |-> "confirm", run |-> r]
\* Alt+/: setModalConfig({type: 'shortcuts'})
ShortcutsModal == [type |-> "shortcuts", run |-> 0]

\* a call on its way to processGeneration: kind is the handler that made it
NewRun(chatId, kind, pc) ==
    [chatId |-> chatId, kind |-> kind, pc |-> pc, aborted |-> FALSE, signal |-> 0,
     genLeft |-> 0, imageIds |-> <<>>, unlock |-> FALSE, older |-> {}]

\* the refs a synchronous stretch of code reads and writes
Refs == [g |-> isGeneratingRef, c |-> generatingChatIdRef, a |-> abortRef, rs |-> runs]

SetRefs(R) ==
    /\ isGeneratingRef' = R.g
    /\ generatingChatIdRef' = R.c
    /\ abortRef' = R.a
    /\ runs' = R.rs

\* a call that has ended keeps its controller's flag and its pending lock release
Ended(run) == [NewRun(0, "ended", "done") EXCEPT !.aborted = run.aborted, !.unlock = run.unlock]

\* a call that reaches finally notes the 500 ms timers set before its 1000 ms one
AtPc(R, r, pc) ==
    [R EXCEPT !.rs = [@ EXCEPT ![r] =
        IF pc = "done" THEN Ended(@)
        ELSE IF pc = "cleanup"
             THEN [@ EXCEPT !.pc = pc, !.older = {q \in DOMAIN R.rs : R.rs[q].unlock}]
             ELSE [@ EXCEPT !.pc = pc]]]

\* abortRef.current?.abort(); generatingChatIdRef.current = null; isGeneratingRef.current = false
handleAbortGeneration(R) ==
    [R EXCEPT !.g = FALSE, !.c = 0,
              !.rs = IF R.a # 0 THEN [@ EXCEPT ![R.a].aborted = TRUE] ELSE @]

\* processGeneration up to its first await: the collision guard, or the refs and the
\* new AbortController
processGenerationStart(R, r) ==
    IF R.g
    THEN AtPc(handleAbortGeneration(R), r, "wait")
    ELSE AtPc([R EXCEPT !.g = TRUE, !.c = R.rs[r].chatId, !.a = r], r, "reads")

\* onProceed up to its first await: handleSendMessage awaits the database,
\* handleContinueGeneration calls processGeneration at once
onProceed(R, r) ==
    IF R.rs[r].kind = "send" THEN AtPc(R, r, "pre") ELSE processGenerationStart(R, r)

\* handleCheckConflict(onProceed, onCancel) called for the new call r in the chat on screen
handleCheckConflict(r, chatId, kind) ==
    LET R == [Refs EXCEPT !.rs = Put(@, r, NewRun(chatId, kind, "modal"))]
    IN  IF R.g \/ R.c # 0
        THEN IF R.c # 0 /\ R.c # chatId
             THEN SetRefs(R) /\ modalConfig' = ConflictModal(r)
             ELSE SetRefs(AtPc(handleAbortGeneration(R), r, "timer")) /\ UNCHANGED modalConfig
        ELSE SetRefs(onProceed(R, r)) /\ UNCHANGED modalConfig

appState == <<dbVersion, sweepPending, send, toggle, lightbox, imp, fork, edit, archive,
              config, fileConfig, exported, promptStore>>

nextRun == Cardinality(DOMAIN runs) + 1

\* handleSendMessage: the lock, then handleCheckConflict
handleSendMessageLocked(chatId) ==
    /\ DbReady /\ modalConfig = NoModal
    /\ ~isSubmittingRef
    /\ config.apiKey # ""
    /\ isSubmittingRef' = TRUE
    /\ handleCheckConflict(nextRun, chatId, "send")
    /\ UNCHANGED <<now, store, ids, appState, last>>

\* the last message of the chat, by timestamp
LastMessage(msgs, chatId) ==
    LET S == {m \in DOMAIN msgs : msgs[m].chatId = chatId}
        rows == SortByTimestamp(msgs, S)
    IN  rows[Len(rows)]

\* the Continue button: shown while the chat is not the generating one and its last
\* message is a user message
handleContinueGeneration(chatId) ==
    /\ DbReady /\ modalConfig = NoModal
    /\ \E m \in DOMAIN messages : messages[m].chatId = chatId
    /\ LastMessage(messages, chatId).role = "user"
    /\ generatingChatIdRef # chatId
    /\ handleCheckConflict(nextRun, chatId, "continue")
    /\ UNCHANGED <<now, store, ids, appState, isSubmittingRef, last>>

\* GlobalModal.handleConfirm on the conflict dialog: abort, then onProceed in 100 ms
ModalConfirm ==
    /\ modalConfig.type = "confirm"
    /\ SetRefs(AtPc(handleAbortGeneration(Refs), modalConfig.run, "timer"))
    /\ modalConfig' = NoModal
    /\ UNCHANGED <<now, store, ids, appState, isSubmittingRef, last>>

\* GlobalModal.handleCancel on the conflict dialog: onCancel releases the lock
ModalCancel ==
    /\ modalConfig.type = "confirm"
    /\ SetRefs(AtPc(Refs, modalConfig.run, "done"))
    /\ isSubmittingRef' = (isSubmittingRef /\ runs[modalConfig.run].kind # "send")
    /\ modalConfig' = NoModal
    /\ UNCHANGED <<now, store, ids, appState, last>>

\* Alt+/ while the conflict dialog is open replaces it: neither of its callbacks
\* runs; the shortcuts dialog is then closed
ShowShortcuts ==
    /\ modalConfig.type = "confirm"
    /\ modalConfig' = ShortcutsModal
    /\ SetRefs(AtPc(Refs, modalConfig.run, "done"))
    /\ UNCHANGED <<now, store, ids, appState, isSubmittingRef, last>>

CloseShortcuts ==
    /\ modalConfig = ShortcutsModal
    /\ modalConfig' = NoModal
    /\ UNCHANGED <<now, store, ids, appState, isGeneratingRef, generatingChatIdRef, abortRef,
                   runs, isSubmittingRef, last>>

\* setTimeout(() => onProceed(), 100)
ProceedTimer(r) ==
    /\ runs[r].pc = "timer"
    /\ SetRefs(onProceed(Refs, r))
    /\ UNCHANGED <<now, store, ids, appState, isSubmittingRef, modalConfig, last>>

\* handleSendMessage's onProceed: db.messages.add of the user message, the 500 ms
\* release of the lock, processGeneration; or an error caught on the way
SendProceed(r) ==
    /\ runs[r].pc = "pre"
    /\ \/ /\ messages' = Put(messages, nextMsgId,
                             MessageRow(runs[r].chatId, "user", <<>>, now, FALSE))
          /\ nextMsgId' = nextMsgId + 1
          /\ SetRefs(processGenerationStart(
                        [Refs EXCEPT !.rs = [@ EXCEPT ![r].unlock = TRUE]], r))
          /\ last' = Op3("messages.add", {nextMsgId}, {r})
          /\ UNCHANGED isSubmittingRef
       \/ /\ SetRefs(AtPc(Refs, r, "done"))
          /\ isSubmittingRef' = FALSE
          /\ UNCHANGED <<messages, nextMsgId, last>>
    /\ UNCHANGED <<now, chats, images, nextChatId, nextImgId, appState, modalConfig>>

\* a 100 ms timer (handleCheckConflict's, or the collision guard's) is pending; the
\* 500 ms and 1000 ms timers fire after the 100 ms timers that are pending with
\* them, and a 1000 ms timer after the 500 ms timers set before it
ShortTimerPending == \E q \in DOMAIN runs : runs[q].pc \in {"timer", "wait"}

\* setTimeout(() => { isSubmittingRef.current = false }, 500)
UnlockTimer(r) ==
    /\ runs[r].unlock
    /\ ~ShortTimerPending
    /\ runs' = [runs EXCEPT ![r].unlock = FALSE]
    /\ isSubmittingRef' = FALSE
    /\ UNCHANGED <<now, store, ids, appState, isGeneratingRef, generatingChatIdRef, abortRef,
                   modalConfig, last>>

\* the error message of the catch branch
ErrorMessage(r) ==
    /\ messages' = Put(messages, nextMsgId, MessageRow(runs[r].chatId, "model", <<>>, now, TRUE))
    /\ nextMsgId' = nextMsgId + 1
    /\ last' = Op3("gen:error", {nextMsgId}, {r})
    /\ UNCHANGED <<chats, images, nextChatId, nextImgId>>

\* processGeneration after its first await, one await at a time
processGeneration(r) ==
    /\ \/ /\ runs[r].pc = "wait"
          /\ SetRefs(AtPc([Refs EXCEPT !.g = TRUE, !.c = runs[r].chatId, !.a = r], r, "reads"))
          /\ UNCHANGED <<store, ids, last>>
       \/ /\ runs[r].pc = "reads"
          /\ IF abortRef = 0
             THEN SetRefs(AtPc(Refs, r, "cleanup")) /\ ErrorMessage(r)
             ELSE /\ SetRefs(AtPc([Refs EXCEPT !.rs = [@ EXCEPT ![r].signal = abortRef]],
                                  r, "stream"))
                  /\ UNCHANGED <<store, ids, last>>
       \/ /\ runs[r].pc = "stream"
          /\ runs[runs[r].signal].aborted
          /\ SetRefs(AtPc(Refs, r, "cleanup"))
          /\ UNCHANGED <<store, ids, last>>
       \/ /\ runs[r].pc = "stream"
          /\ SetRefs(AtPc(Refs, r, "cleanup"))
          /\ ErrorMessage(r)
       \/ /\ runs[r].pc = "stream"
          /\ \E n \in 0..MaxGenImages :
               SetRefs(IF runs[r].aborted
                       THEN AtPc(Refs, r, "cleanup")
                       ELSE AtPc([Refs EXCEPT !.rs = [@ EXCEPT ![r].genLeft = n]], r, "images"))
          /\ UNCHANGED <<store, ids, last>>
       \/ /\ runs[r].pc = "images" /\ runs[r].genLeft > 0
          /\ images' = Put(images, nextImgId, NewImage(now))
          /\ nextImgId' = nextImgId + 1
          /\ runs' = [runs EXCEPT ![r].genLeft = @ - 1, ![r].imageIds = Append(@, nextImgId)]
          /\ last' = Op3("gen:image", {nextImgId}, {r})
          /\ UNCHANGED <<chats, messages, nextChatId, nextMsgId, isGeneratingRef,
                         generatingChatIdRef, abortRef>>
       \/ /\ runs[r].pc = "images" /\ runs[r].genLeft = 0
          /\ messages' = Put(messages, nextMsgId,
                             MessageRow(runs[r].chatId, "model", runs[r].imageIds, now, FALSE))
          /\ nextMsgId' = nextMsgId + 1
          /\ SetRefs(AtPc(Refs, r, "chat"))
          /\ last' = Op3("gen:message", {nextMsgId}, {r})
          /\ UNCHANGED <<chats, images, nextChatId, nextImgId>>
       \/ /\ runs[r].pc = "chat"
          /\ chats' = IF runs[r].chatId \in DOMAIN chats
                      THEN [chats EXCEPT ![runs[r].chatId].updatedAt = now] ELSE chats
          /\ SetRefs(AtPc(Refs, r, "cleanup"))
          /\ last' = Op3("gen:chat", {runs[r].chatId}, {r})
          /\ UNCHANGED <<messages, images, ids>>
    /\ UNCHANGED <<now, appState, isSubmittingRef, modalConfig>>

\* the 1000 ms timer of the finally block
CleanupTimer(r) ==
    /\ runs[r].pc = "cleanup"
    /\ ~ShortTimerPending
    /\ \A q \in runs[r].older : ~runs[q].unlock
    /\ SetRefs(AtPc(IF generatingChatIdRef = runs[r].chatId
                    THEN [Refs EXCEPT !.g = FALSE, !.c = 0, !.a = 0]
                    ELSE Refs, r, "done"))
    /\ UNCHANGED <<now, store, ids, appState, isSubmittingRef, modalConfig, last>>

\* the Stop control, Alt+C
StopGeneration ==
    /\ isGeneratingRef
    /\ SetRefs(handleAbortGeneration(Refs))
    /\ UNCHANGED <<now, store, ids, appState, isSubmittingRef, modalConfig, last>>

\* two chats of an earlier session, each ending with a user message
GenInit ==
    /\ InitCommon
    /\ NoPrompts
    /\ InitConfig
    /\ archive = EmptyArchive
    /\ dbVersion = 3
    /\ chats = [c \in {MaxChats + 1, MaxChats + 2} |-> ChatRow(1)]
    /\ messages = [m \in {MaxMessages + 1, MaxMessages + 2} |->
                      MessageRow(MaxChats + m - MaxMessages, "user", <<>>, 1, FALSE)]
    /\ images = EmptyTable
    /\ nextChatId = 1 /\ nextMsgId = 1 /\ nextImgId = 1

GenNext ==
    \/ \E c \in DOMAIN chats : nextRun <= MaxRuns /\ handleSendMessageLocked(c)
    \/ \E c \in DOMAIN chats : nextRun <= MaxRuns /\ handleContinueGeneration(c)
    \/ ModalConfirm
    \/ ModalCancel
    \/ ShowShortcuts
    \/ CloseShortcuts
    \/ \E r \in DOMAIN runs : ProceedTimer(r)
    \/ \E r \in DOMAIN runs : SendProceed(r)
    \/ \E r \in DOMAIN runs : UnlockTimer(r)
    \/ \E r \in DOMAIN runs : processGeneration(r)
    \/ \E r \in DOMAIN runs : CleanupTimer(r)
    \/ StopGeneration

GenSpec == GenInit /\ [][GenNext]_vars

\* three sends in one chat
OverlapNext ==
    \/ nextRun <= MaxOverlap /\ handleSendMessageLocked(MaxChats + 1)
    \/ \E r \in DOMAIN runs : ProceedTimer(r)
    \/ \E r \in DOMAIN runs : SendProceed(r)
    \/ \E r \in DOMAIN runs : UnlockTimer(r)
    \/ \E r \in DOMAIN runs : processGeneration(r)
    \/ \E r \in DOMAIN runs : CleanupTimer(r)
    \/ StopGeneration

OverlapSpec == GenInit /\ [][OverlapNext]_vars

\* the calls of processGeneration that hold a controller and have not reached finally
InFlightRuns == {r \in DOMAIN runs : runs[r].pc \in {"reads", "stream", "images", "chat"}}

\* C31: at most one call of processGeneration is in flight and not aborted
OneGenerationAtATime ==
    Cardinality({r \in InFlightRuns : ~runs[r].aborted}) <= 1

\* C32: while a generation is in flight and not aborted the generating flags are
\* set for it and abortRef holds its controller, so that Stop aborts it
FlagsStayWhileInFlight ==
    \A r \in InFlightRuns :
       ~runs[r].aborted
       => /\ isGeneratingRef
          /\ generatingChatIdRef = runs[r].chatId
          /\ abortRef = r

\* C33: a set submission lock has something left that releases it: the open
\* conflict dialog of the send, its pending onProceed, or its 500 ms timer
SubmitLockReleased ==
    isSubmittingRef
    => \E r \in DOMAIN runs :
          \/ runs[r].unlock
          \/ runs[r].kind = "send" /\ runs[r].pc \in {"timer", "pre"}
          \/ runs[r].kind = "send" /\ runs[r].pc = "modal" /\ modalConfig = ConflictModal(r)

\* C34: a generation aborted before its stream completed adds no message and no
\* image; a client failure adds one model message with error = true and no
\* imageIds, and no image
FailuresRecordedAbortsNot ==
    [][\A r \in DOMAIN runs :
          (runs[r].pc \in {"reads", "stream"} /\ runs'[r].pc # runs[r].pc)
          => /\ images' = images
             /\ runs[r].aborted => messages' = messages
             /\ messages' # messages
                => /\ DOMAIN messages' = DOMAIN messages \cup {nextMsgId}
                   /\ messages'[nextMsgId] =
                        MessageRow(runs[r].chatId, "model", <<>>, now, TRUE)]_vars

----------------------------------------------------------------------------
(* The prompt history: db.prompts *)

PROMPT_CAP == 20
MaxNewPrompts == 3

\* prompt texts; "a " is "a" with a trailing blank
Texts == {"a", "a ", "b"}

\* String.prototype.trim
trim(text) == IF text = "a " THEN "a" ELSE text

PromptRow(text, type, t) == [text |-> text, type |-> type, timestamp |-> t]

Recent(ps) == {p \in DOMAIN ps : ps[p].type = "recent"}
Saved(ps) == {p \in DOMAIN ps : ps[p].type = "saved"}

\* db.prompts.where('type').equals('saved').filter(p => p.text === text).first()
SavedWithText(ps, text) == {p \in Saved(ps) : ps[p].text = text}

\* where('type').equals('recent').sortBy('timestamp'): the ids, oldest first
RECURSIVE SortPromptsByTimestamp(_, _)
SortPromptsByTimestamp(ps, S) ==
    IF S = {} THEN <<>>
    ELSE LET p == CHOOSE x \in S : \A y \in S :
                     \/ ps[x].timestamp < ps[y].timestamp
                     \/ ps[x].timestamp = ps[y].timestamp /\ x <= y
         IN  <<p>> \o SortPromptsByTimestamp(ps, S \ {p})

\* a pruning that drops the newest recent prompts instead of the oldest
toDeleteNewest(ps, count) ==
    LET oldest == SortPromptsByTimestamp(ps, Recent(ps))
    IN  {oldest[k] : k \in {j \in 1..Len(oldest) : j > Len(oldest) - (count - PROMPT_CAP)}}

\* oldest.slice(0, count - 20).map(p => p.id)
toDelete(ps, count) ==
    LET oldest == SortPromptsByTimestamp(ps, Recent(ps))
    IN  {oldest[k] : k \in {j \in 1..Len(oldest) : j <= count - PROMPT_CAP}}

\* everything but the prompt store and the last operation
appRest == <<now, dbVersion, store, ids, sweepPending, send, toggle, lightbox, imp, fork, edit,
             archive, config, fileConfig, exported, refs>>

PromptMayStart == DbReady /\ promptOp.pc = "idle" /\ nextPromptId <= PROMPT_CAP + 1 + MaxNewPrompts

\* handleSendMessage.onProceed: db.prompts.add of the trimmed text as a recent prompt
SendPromptAdd(text) ==
    /\ PromptMayStart
    /\ trim(text) # ""
    /\ prompts' = Put(prompts, nextPromptId, PromptRow(trim(text), "recent", now))
    /\ nextPromptId' = nextPromptId + 1
    /\ promptOp' = [PromptIdle EXCEPT !.pc = "count"]
    /\ last' = Op("prompts.add", {nextPromptId})
    /\ UNCHANGED appRest

\* db.prompts.where('type').equals('recent').count()
SendPromptCount ==
    /\ promptOp.pc = "count"
    /\ LET count == Cardinality(Recent(prompts))
       IN  promptOp' = IF count > PROMPT_CAP
                       THEN [PromptIdle EXCEPT !.pc = "sort", !.count = count]
                       ELSE PromptIdle
    /\ UNCHANGED <<appRest, prompts, nextPromptId, last>>

\* the sortBy('timestamp') read, then db.prompts.bulkDelete(ids)
SendPromptSort ==
    /\ promptOp.pc = "sort"
    /\ promptOp' = [promptOp EXCEPT !.pc = "delete", !.ids = toDelete(prompts, promptOp.count)]
    /\ UNCHANGED <<appRest, prompts, nextPromptId, last>>

SendPromptDelete ==
    /\ promptOp.pc = "delete"
    /\ prompts' = Restrict(prompts, DOMAIN prompts \ promptOp.ids)
    /\ promptOp' = PromptIdle
    /\ last' = Op("prompts.bulkDelete", promptOp.ids)
    /\ UNCHANGED <<appRest, nextPromptId>>

\* handleSavePrompt: the lookup of the trimmed text among the saved prompts
handleSavePrompt(text) ==
    /\ PromptMayStart
    /\ promptOp' = IF SavedWithText(prompts, trim(text)) = {}
                   THEN [PromptIdle EXCEPT !.pc = "save", !.text = trim(text)]
                   ELSE PromptIdle
    /\ UNCHANGED <<appRest, prompts, nextPromptId, last>>

\* db.prompts.add({text, type: 'saved', timestamp})
SavePromptAdd ==
    /\ promptOp.pc = "save"
    /\ prompts' = Put(prompts, nextPromptId, PromptRow(promptOp.text, "saved", now))
    /\ nextPromptId' = nextPromptId + 1
    /\ promptOp' = PromptIdle
    /\ last' = Op("prompts.save", {nextPromptId})
    /\ UNCHANGED appRest

\* PromptHistoryModal.handleToggleSaved(prompt) and MessageBubble.handleBookmarkPrompt:
\* the lookup of the text as it stands; found, the row is deleted; not found, the
\* modal adds the text and the bubble calls handleSavePrompt
TogglePromptLookup(text, fromBubble) ==
    /\ PromptMayStart
    /\ LET existing == SavedWithText(prompts, text)
       IN  promptOp' =
             IF existing # {}
             THEN [PromptIdle EXCEPT !.pc = "unsave",
                                     !.ids = {CHOOSE p \in existing : \A q \in existing : p <= q}]
             ELSE IF ~fromBubble THEN [PromptIdle EXCEPT !.pc = "save", !.text = text]
             ELSE IF SavedWithText(prompts, trim(text)) = {}
                  THEN [PromptIdle EXCEPT !.pc = "save", !.text = trim(text)]
                  ELSE PromptIdle
    /\ UNCHANGED <<appRest, prompts, nextPromptId, last>>

\* db.prompts.delete(existing.id)
TogglePromptDelete ==
    /\ promptOp.pc = "unsave"
    /\ prompts' = Restrict(prompts, DOMAIN prompts \ promptOp.ids)
    /\ promptOp' = PromptIdle
    /\ last' = Op("prompts.delete", promptOp.ids)
    /\ UNCHANGED <<appRest, nextPromptId>>

\* the backup files the user may hold: none, or one with a saved and a recent prompt
PromptFiles ==
    {<<>>, <<PromptRow("a", "saved", 1), PromptRow("b", "recent", 0)>>,
     <<PromptRow("b", "recent", 0), PromptRow("b", "recent", 0)>>}

\* importData, transaction 1: the prompts of the file, their ids stripped, bulkAdd-ed
ImportPrompts(file) ==
    /\ PromptMayStart
    /\ file # <<>>
    /\ nextPromptId + Len(file) - 1 <= PROMPT_CAP + 1 + MaxNewPrompts
    /\ prompts' = Merge(prompts, [p \in nextPromptId..(nextPromptId + Len(file) - 1) |->
                                     file[p - nextPromptId + 1]])
    /\ nextPromptId' = nextPromptId + Len(file)
    /\ promptOp' = PromptIdle
    /\ last' = Op("import:prompts", nextPromptId..(nextPromptId + Len(file) - 1))
    /\ UNCHANGED appRest

\* a history at or just under the cap, with one older saved prompt
PromptInit ==
    /\ InitCommon
    /\ InitConfig
    /\ archive = EmptyArchive
    /\ InitFresh
    /\ \E slack \in 0..MaxSlack :
         /\ prompts = Put([p \in 1..(PROMPT_CAP - slack) |-> PromptRow("b", "recent", 1)],
                          PROMPT_CAP - slack + 1, PromptRow("a", "saved", 0))
         /\ nextPromptId = PROMPT_CAP - slack + 2

PromptNext ==
    \/ Tick
    \/ \E text \in Texts : SendPromptAdd(text)
    \/ SendPromptCount
    \/ SendPromptSort
    \/ SendPromptDelete
    \/ \E text \in Texts : handleSavePrompt(text)
    \/ SavePromptAdd
    \/ \E p \in DOMAIN prompts, fromBubble \in BOOLEAN :
          TogglePromptLookup(prompts[p].text, fromBubble)
    \/ TogglePromptDelete
    \/ \E file \in PromptFiles : ImportPrompts(file)

PromptSpec == PromptInit /\ [][PromptNext]_vars

\* C35: when the pruning of a send has run to its end at most 20 recent prompts
\* remain, every prompt it deleted was a recent one no newer than each recent
\* prompt it kept, and no saved prompt is gone
RecentPromptCap ==
    [][/\ (promptOp.pc \in {"count", "delete"} /\ promptOp'.pc = "idle")
          => Cardinality(Recent(prompts')) <= PROMPT_CAP
       /\ promptOp.pc \in {"count", "sort", "delete"}
          => /\ Saved(prompts') = Saved(prompts)
             /\ \A d \in DOMAIN prompts \ DOMAIN prompts', k \in Recent(prompts') :
                   /\ prompts[d].type = "recent"
                   /\ prompts[d].timestamp <= prompts[k].timestamp
             /\ Cardinality(DOMAIN prompts \ DOMAIN prompts')
                  <= Cardinality(Recent(prompts)) - PROMPT_CAP
                \/ DOMAIN prompts' = DOMAIN prompts]_vars

\* the pruning has just deleted a recent prompt, kept a newer one and an older saved one
RecentPromptCapWitness ==
    /\ last.op = "prompts.bulkDelete"
    /\ last.ids # {}
    /\ Cardinality(Recent(prompts)) = PROMPT_CAP
    /\ \E k \in Recent(prompts) : prompts[k].timestamp = MaxTime
    /\ \E s \in Saved(prompts) : \A k \in Recent(prompts) : prompts[s].timestamp < prompts[k].timestamp

\* C36: no two saved prompts have the same text
SavedPromptsUnique ==
    \A p, q \in Saved(prompts) : prompts[p].text = prompts[q].text => p = q

====
